---- MODULE Spec2Model ----
(***************************************************************************)
(* A model of asciicast-utils-python: the recorder (record_session.py:     *)
(* AsciinemaRecorder, WebSocketMonitorServer, TerminalState) and the       *)
(* player (playback_session.py: AsciinemaPlayer).                          *)
(*                                                                         *)
(* Three specifications share the variables:                               *)
(*   SpecRec   the recorder's record_session / _handle_io with its child,  *)
(*             the controlling terminal, the clock and the signals;        *)
(*   SpecHub   the monitor: the recorder's write_event calls, the hand-off *)
(*             queue, the drain task and the viewers' connection handlers; *)
(*   SpecPlay  the player's play_in_terminal / play_events.                *)
(* Each leaves the other parts' variables as they are.                     *)
(*                                                                         *)
(* Bytes are numbers 0..255, byte strings and decoded strings are          *)
(* sequences of numbers (code points).  Time of the recorder is counted in *)
(* clock ticks, TicksPerMs to a millisecond; time of the player in ms.     *)
(***************************************************************************)
EXTENDS Integers, Sequences, FiniteSets, TLC

VARIABLES
    \* ---- recorder: AsciinemaRecorder ----
    pc,                     \* position of record_session
    monitor_enabled,        \* self.monitor_server is not None
    stdin_isatty,           \* os.isatty(sys.stdin.fileno())
    tty_attrs,              \* attributes of the controlling terminal
    original_tty_settings,  \* self.original_tty_settings ("None" or saved)
    cast_file,              \* self.cast_file: "None", "open", "closed"
    cast,                   \* the lines of the cast file
    wall,                   \* time.time(), in ticks
    start_time,             \* self.start_time, in ticks
    child,                  \* "none", "alive", "zombie", "reaped"
    child_wrote,            \* number of bytes of ChildScript written to fd 1
    child_wrote_err,        \* number of bytes of ChildErrScript written to fd 2
    user_typed,             \* number of bytes of UserScript typed
    child_sigint,           \* a SIGINT was sent to the child with os.kill
    tty_winsize,            \* window size of the controlling terminal, <<rows, cols>>
    stdin_eof,              \* the recorder's stdin is at end of file
    stderr_eof,             \* the child has closed its fd 2
    polls_since_resize,     \* history: check_terminal_state_changes calls since
                            \* the controlling terminal was resized, up to 2
    eof_reads,              \* history: the fds a zero-length read was made on
    master_buf,             \* bytes written by the child, unread on master_fd
    stderr_buf,             \* bytes unread on stderr_fd
    stdin_buf,              \* bytes unread on stdin_fd
    child_in,               \* bytes the pty master accepted (the child's stdin)
    term_out,               \* bytes written to the recorder's stdout
    term_err,               \* bytes written to the recorder's stderr
    ready_fds,              \* the list select returned, not yet dispatched
    pty_attrs,              \* line discipline of the pty
    pty_winsize,            \* window size of the pty, <<rows, cols>>
    last_terminal_attrs,    \* self.last_terminal_attrs
    last_winsize,           \* self.last_winsize
    raw_was_set,            \* history: setup_terminal switched to raw mode
    end_cause,              \* history: how record_session left the loop
    \* ---- monitor: WebSocketMonitorServer, TerminalState ----
    event_loop,             \* self.event_loop is not None
    running,                \* self.running
    queue_ready,            \* self.broadcast_queue is not None
    broadcast_queue,        \* items of self.broadcast_queue
    clients,                \* self.clients
    recent_output,          \* terminal_state.recent_output
    conn,                   \* per viewer: state of its connection handler
    inbox,                  \* per viewer: the messages written to its socket
    drain,                  \* the drain task inside broadcast_event
    stored,                 \* history: every entry process_output appended
    taken,                  \* history: every item the drain task dequeued
    attached_at,            \* history: per viewer, Len(taken) at attach
    published_at,           \* history: per viewer, events written at attach
    send_failed,            \* history: the viewers a send to which raised
    handled,                \* history: per viewer, the messages of it the handler took
    \* ---- player: AsciinemaPlayer ----
    events,                 \* self.events
    speed,                  \* self.speed
    max_delay,              \* self.max_delay, in ms
    paused,                 \* self.paused
    skip_to_next,           \* self.skip_to_next
    ppc,                    \* position of play_in_terminal / play_events
    event_index,            \* index of the event of the current iteration
    last_timestamp,         \* last_timestamp of play_events
    remaining_delay,        \* remaining_delay of the sleep loop
    play_out,               \* the chunks the player wrote to stdout
    play_err,               \* the chunks the player wrote to stderr
    play_tty,               \* attributes of the player's controlling terminal
    keys_left,              \* key presses the user may still make
    waited,                 \* history: ms slept, not counting pauses, since the last dispatch
    longest_sleep,          \* history: the longest single time.sleep, in ms
    key_seen,               \* history: a key was consumed during playback
    emitted,                \* history: indices of the events dispatched
    skip_anchor,            \* history: anchor pending when Tab was consumed
    space_since_tab,        \* history: Space was consumed after that Tab
    last_key,               \* history: what the last handle_input call consumed
    outcome,                \* how play_in_terminal ended
    \* ---- player: load_cast_file ----
    file_header,            \* the first line of the cast file
    file_lines,             \* the lines after it
    lpc,                    \* position of load_cast_file
    line_num,               \* index in file_lines of the next line to parse
    load_warnings           \* the lines a warning was printed for

recVars == <<pc, monitor_enabled, stdin_isatty, tty_attrs, original_tty_settings,
             raw_was_set, end_cause>>
castVars == <<cast_file, cast>>
clockVars == <<wall, start_time>>
envVars == <<child_sigint, tty_winsize, stdin_eof, stderr_eof, polls_since_resize,
             eof_reads>>
ioVars == <<child, child_wrote, child_wrote_err, user_typed, envVars, master_buf, stderr_buf,
            stdin_buf, child_in, term_out, term_err, ready_fds, pty_attrs,
            pty_winsize, last_terminal_attrs, last_winsize>>
loopVars == <<event_loop, running, queue_ready>>
hubVars == <<clients, recent_output, conn, inbox, drain, stored, taken,
             attached_at, published_at, send_failed, handled>>
playStateVars == <<speed, max_delay, paused, skip_to_next, ppc, event_index,
                   last_timestamp, remaining_delay, play_out, play_err,
                   play_tty, keys_left, waited, longest_sleep, key_seen, emitted,
                   skip_anchor, space_since_tab, last_key, outcome>>
loadVars == <<file_header, file_lines, lpc, line_num, load_warnings>>
playVars == <<events, playStateVars, loadVars>>
vars == <<recVars, castVars, clockVars, ioVars, loopVars, broadcast_queue,
          hubVars, playVars>>

-----------------------------------------------------------------------------
(* Bounds of the model.                                                    *)

NumViewers == 2         \* viewers that may connect
MaxEvents == 3          \* write_event calls of the recorder in SpecHub
BufferSize == 1         \* --monitor-buffer-size (B), scaled down from 1000
MaxWall == 2            \* the clock stops advancing here
MaxStepBack == 1        \* largest backward adjustment of the wall clock
MaxKeys == 3            \* key presses during one playback
MaxOut == 2             \* bytes the child writes to its stdout
MaxErr == 1             \* bytes the child writes to its stderr
MaxIn == 2              \* bytes the user types
MaxMsgs == 1            \* messages one viewer sends to the server

Viewers == 1..NumViewers

(* Program constants.                                                      *)

SyncWindow == 100       \* list(self.recent_output)[-100:]
ReadChunk == 1024       \* os.read(fd, 1024)
TicksPerMs == 2         \* resolution of time.time() against round(.., 3)
ReplacementChar == 65533    \* U+FFFD, errors='replace'

NoneValue == "None"

-----------------------------------------------------------------------------
(* Helpers on sequences.                                                   *)

Min(a, b) == IF a <= b THEN a ELSE b

Max(a, b) == IF a >= b THEN a ELSE b

Range(s) == {s[i] : i \in 1..Len(s)}

\* s[-n:] of Python for n >= 1
LastN(s, n) == SubSeq(s, Max(1, Len(s) - n + 1), Len(s))

\* s[:n] of Python
FirstN(s, n) == SubSeq(s, 1, Min(n, Len(s)))

RECURSIVE Concat(_)
Concat(ss) == IF ss = <<>> THEN <<>> ELSE Head(ss) \o Concat(Tail(ss))

RECURSIVE SelectSeqOf(_, _)
\* the subsequence of s at the indices in idx
SelectSeqOf(s, idx) ==
    IF s = <<>> THEN <<>>
    ELSE SelectSeqOf(SubSeq(s, 1, Len(s) - 1), idx)
         \o (IF Len(s) \in idx THEN <<s[Len(s)]>> ELSE <<>>)

-----------------------------------------------------------------------------
(* time.time() - start_time rounded to 3 decimals: round(), to the nearest *)
(* millisecond, a tie to the even one.                                     *)

Round3(ticks) ==
    LET lo == ticks \div TicksPerMs
        r  == ticks % TicksPerMs
    IN  IF 2 * r < TicksPerMs THEN lo
        ELSE IF 2 * r > TicksPerMs THEN lo + 1
        ELSE IF lo % 2 = 0 THEN lo ELSE lo + 1

(* bytes.decode('utf-8', errors='replace') on the bytes of the model's     *)
(* scripts: an ASCII byte is its own code point; 0xFF never occurs in      *)
(* UTF-8 and decodes to one U+FFFD.                                        *)
Decode(data) ==
    [i \in 1..Len(data) |-> IF data[i] < 128 THEN data[i] ELSE ReplacementChar]

-----------------------------------------------------------------------------
(* TerminalState                                                           *)

\* collections.deque(maxlen=buffer_size).append
DequeAppendDropNew(buf, entry, maxlen) ==
    IF Len(buf) >= maxlen THEN buf ELSE Append(buf, entry)

DequeAppend(buf, entry, maxlen) ==
    IF maxlen = 0 THEN <<>>
    ELSE IF Len(buf) >= maxlen THEN Append(Tail(buf), entry)
    ELSE Append(buf, entry)

\* TerminalState.process_output
ProcessOutput(buf, event_type, data, now) ==
    DequeAppend(buf, [timestamp |-> now, event_type |-> event_type, data |-> data],
                BufferSize)
GetSyncDataWholeBuffer(buf, now) ==
    [type |-> "terminal_sync",
     recent_output |-> buf,
     buffer_info |-> [total_events |-> Len(buf),
                      showing_recent |-> Min(SyncWindow, Len(buf)),
                      sync_time |-> now]]

\* TerminalState.get_sync_data
GetSyncData(buf, now) ==
    [type |-> "terminal_sync",
     recent_output |-> LastN(buf, SyncWindow),
     buffer_info |-> [total_events |-> Len(buf),
                      showing_recent |-> Min(SyncWindow, Len(buf)),
                      sync_time |-> now]]

-----------------------------------------------------------------------------
(* WebSocketMonitorServer.schedule_broadcast: the put_nowait handed to     *)
(* call_soon_threadsafe runs on the loop thread in call order.  Reading    *)
(* self.broadcast_queue.put_nowait while the queue is still None raises,   *)
(* and the bare except swallows it.                                        *)

ScheduleBroadcast(queue, event_type, data) ==
    IF event_loop /\ running /\ queue_ready
    THEN Append(queue, [event_type |-> event_type, data |-> data])
    ELSE queue

ScheduleBroadcastAwaitsLoop == drain.pc = "idle"

\* schedule_broadcast hands put_nowait to the loop with call_soon_threadsafe
\* and returns: whatever the loop is doing, the caller goes on
ScheduleBroadcastReturns == TRUE

\* write_event: event_type in ['o', 'e']
Broadcastable(event_type) == event_type \in {"o", "e"}

(* AsciinemaRecorder.write_event                                           *)
WriteEventQueue(queue, event_type, data) ==
    IF monitor_enabled /\ Broadcastable(event_type)
    THEN ScheduleBroadcast(queue, event_type, data)
    ELSE queue

CastLine(event_type, data, now) ==
    [t |-> Round3(now - start_time), kind |-> event_type, data |-> data]
WriteEventCastSkipsOutput(c, event_type, data, now) ==
    IF cast_file = "open" /\ event_type \notin {"o", "e"}
    THEN Append(c, CastLine(event_type, data, now)) ELSE c

\* the cast file and the queue after write_event(event_type, data) on (c, q)
WriteEventCast(c, event_type, data, now) ==
    IF cast_file = "open" THEN Append(c, CastLine(event_type, data, now)) ELSE c

WriteEventQ(q, event_type, data) ==
    IF cast_file = "open" THEN WriteEventQueue(q, event_type, data) ELSE q

-----------------------------------------------------------------------------
(* json.dumps, default arguments: the text of a line of the cast file.     *)

RECURSIVE DecimalStr(_)
\* str(n) for n >= 0, as code points
DecimalStr(n) ==
    IF n < 10 THEN <<48 + n>> ELSE Append(DecimalStr(n \div 10), 48 + (n % 10))

HexDigit(d) == IF d < 10 THEN 48 + d ELSE 87 + d

\* a string written as it is, nothing escaped
JsonEscapeRaw(cp) == <<cp>>

\* one code point (below 0x10000) in a JSON string with ensure_ascii
JsonEscape(cp) ==
    CASE cp = 34 -> <<92, 34>>
      [] cp = 92 -> <<92, 92>>
      [] cp = 10 -> <<92, 110>>
      [] cp = 13 -> <<92, 114>>
      [] cp = 9  -> <<92, 116>>
      [] cp = 8  -> <<92, 98>>
      [] cp = 12 -> <<92, 102>>
      [] OTHER -> IF cp >= 32 /\ cp <= 126 THEN <<cp>>
                  ELSE <<92, 117, HexDigit((cp \div 4096) % 16),
                         HexDigit((cp \div 256) % 16), HexDigit((cp \div 16) % 16),
                         HexDigit(cp % 16)>>

JsonDumpsStr(str) ==
    <<34>> \o Concat([i \in 1..Len(str) |-> JsonEscape(str[i])]) \o <<34>>

\* the digits of the fraction of ms / 1000, without trailing zeros, at least one
Fraction(ms) ==
    IF ms % 1000 = 0 THEN <<48>>
    ELSE IF ms % 100 = 0 THEN <<48 + (ms \div 100)>>
    ELSE IF ms % 10 = 0 THEN <<48 + (ms \div 100), 48 + ((ms \div 10) % 10)>>
    ELSE <<48 + (ms \div 100), 48 + ((ms \div 10) % 10), 48 + (ms % 10)>>

\* repr of the float round(x, 3), given in ms
FloatRepr(ms) ==
    LET a == IF ms < 0 THEN 0 - ms ELSE ms
    IN  (IF ms < 0 THEN <<45>> ELSE <<>>)
        \o DecimalStr(a \div 1000) \o <<46>> \o Fraction(a % 1000)

\* json.dumps([timestamp, event_type, data])
EventText(line) ==
    <<91>> \o FloatRepr(line.t) \o <<44, 32>>
    \o JsonDumpsStr(CASE line.kind = "o" -> <<111>> [] line.kind = "e" -> <<101>>
                       [] line.kind = "i" -> <<105>> [] line.kind = "r" -> <<114>>
                       [] line.kind = "m" -> <<109>>)
    \o <<44, 32>> \o JsonDumpsStr(line.data) \o <<93>>

-----------------------------------------------------------------------------
(* The start of record_session, up to the I/O loop.                        *)

EventKinds == {"o", "e", "i", "r", "m"}

HeaderLine(now) ==
    [version |-> 2, width |-> 80, height |-> 24,
     timestamp |-> now \div (1000 * TicksPerMs)]

\* write_header: open(self.output_file, 'w') succeeds
WriteHeaderOk ==
    /\ pc = "write_header"
    /\ cast_file' = "open"
    /\ cast' = <<HeaderLine(start_time)>>
    /\ pc' = "setup_terminal"
    /\ UNCHANGED <<monitor_enabled, stdin_isatty, tty_attrs, original_tty_settings,
                   raw_was_set, end_cause, clockVars, ioVars, loopVars,
                   broadcast_queue, hubVars, playVars>>

\* write_header: open raises; nothing in record_session or main catches it
WriteHeaderFails ==
    /\ pc = "write_header"
    /\ pc' = "exited"
    /\ end_cause' = "open_failed"
    /\ UNCHANGED <<monitor_enabled, stdin_isatty, tty_attrs, original_tty_settings,
                   raw_was_set, castVars, clockVars, ioVars, loopVars,
                   broadcast_queue, hubVars, playVars>>

\* setup_terminal
SetupTerminal ==
    /\ pc = "setup_terminal"
    /\ IF stdin_isatty
       THEN /\ original_tty_settings' = tty_attrs
            /\ tty_attrs' = "raw"
            /\ raw_was_set' = TRUE
       ELSE UNCHANGED <<original_tty_settings, tty_attrs, raw_was_set>>
    /\ pc' = "start_monitor"
    /\ UNCHANGED <<monitor_enabled, stdin_isatty, end_cause, castVars, clockVars,
                   ioVars, loopVars, broadcast_queue, hubVars, playVars>>

\* if self.monitor_server: self.monitor_server.start_server()
StartMonitorOk ==
    /\ pc = "start_monitor"
    /\ IF monitor_enabled
       THEN event_loop' = TRUE /\ running' = TRUE
       ELSE UNCHANGED <<event_loop, running>>
    /\ pc' = "spawn"
    /\ UNCHANGED <<monitor_enabled, stdin_isatty, tty_attrs, original_tty_settings,
                   raw_was_set, end_cause, castVars, clockVars, ioVars, queue_ready,
                   broadcast_queue, hubVars, playVars>>

\* start_server raises (a thread cannot be started, no event loop): the call
\* stands before the try of record_session, no finally runs
StartMonitorFails ==
    /\ pc = "start_monitor"
    /\ monitor_enabled
    /\ pc' = "exited"
    /\ end_cause' = "monitor_failed"
    /\ UNCHANGED <<monitor_enabled, stdin_isatty, tty_attrs, original_tty_settings,
                   raw_was_set, castVars, clockVars, ioVars, loopVars,
                   broadcast_queue, hubVars, playVars>>

\* pty.openpty, os.pipe, TIOCSWINSZ, os.fork succeed; the parent enters _handle_io
SpawnOk ==
    /\ pc = "spawn"
    /\ child' = "alive"
    /\ pty_winsize' = <<24, 80>>
    /\ pc' = "io_select"
    /\ UNCHANGED <<monitor_enabled, stdin_isatty, tty_attrs, original_tty_settings,
                   raw_was_set, end_cause, castVars, clockVars, child_wrote,
                   child_wrote_err, user_typed, envVars, master_buf, stderr_buf, stdin_buf,
                   child_in, term_out, term_err, ready_fds, pty_attrs,
                   last_terminal_attrs, last_winsize, loopVars, broadcast_queue,
                   hubVars, playVars>>

\* openpty, pipe or fork raises: except Exception prints, the finally restores
SpawnFails ==
    /\ pc = "spawn"
    /\ pc' = "restore"
    /\ end_cause' = "spawn_failed"
    /\ UNCHANGED <<monitor_enabled, stdin_isatty, tty_attrs, original_tty_settings,
                   raw_was_set, castVars, clockVars, ioVars, loopVars,
                   broadcast_queue, hubVars, playVars>>

-----------------------------------------------------------------------------
(* The child, the user and the clock.                                      *)

\* what the child writes to fd 1: ASCII letters, every second byte 0xFF
ChildScript == [i \in 1..MaxOut |-> IF i % 2 = 0 THEN 255 ELSE 96 + i]

\* what the child writes to fd 2: a line feed, then letters
ChildErrScript == [i \in 1..MaxErr |-> IF i = 1 THEN 10 ELSE 68 + i]

\* what the user types: letters, the second byte is Ctrl-C (0x03)
UserScript == [i \in 1..MaxIn |-> IF i = 2 THEN 3 ELSE 119 + i]

InLoop == pc \in {"io_select", "io_check", "io_reap", "io_dispatch"}

ChildWrite ==
    /\ InLoop
    /\ child = "alive"
    /\ child_wrote < MaxOut
    /\ child_wrote' = child_wrote + 1
    /\ master_buf' = Append(master_buf, ChildScript[child_wrote + 1])
    /\ UNCHANGED <<recVars, castVars, clockVars, child, child_wrote_err, user_typed, envVars,
                   stderr_buf, stdin_buf, child_in, term_out, term_err, ready_fds,
                   pty_attrs, pty_winsize, last_terminal_attrs, last_winsize,
                   loopVars, broadcast_queue, hubVars, playVars>>

ChildWriteErr ==
    /\ InLoop
    /\ child = "alive"
    /\ ~stderr_eof
    /\ child_wrote_err < MaxErr
    /\ child_wrote_err' = child_wrote_err + 1
    /\ stderr_buf' = Append(stderr_buf, ChildErrScript[child_wrote_err + 1])
    /\ UNCHANGED <<recVars, castVars, clockVars, child, child_wrote, user_typed, envVars,
                   master_buf, stdin_buf, child_in, term_out, term_err, ready_fds,
                   pty_attrs, pty_winsize, last_terminal_attrs, last_winsize,
                   loopVars, broadcast_queue, hubVars, playVars>>

\* the child changes the line discipline of its terminal (tcsetattr)
ChildSetAttrs ==
    /\ InLoop
    /\ child = "alive"
    /\ pty_attrs = "cooked"
    /\ pty_attrs' = "raw"
    /\ UNCHANGED <<recVars, castVars, clockVars, child, child_wrote, child_wrote_err,
                   user_typed, envVars, master_buf, stderr_buf, stdin_buf, child_in, term_out,
                   term_err, ready_fds, pty_winsize, last_terminal_attrs,
                   last_winsize, loopVars, broadcast_queue, hubVars, playVars>>

\* the window size of the pty is changed (TIOCSWINSZ on the slave)
ChildResize ==
    /\ InLoop
    /\ child = "alive"
    /\ pty_winsize = <<24, 80>>
    /\ pty_winsize' = <<40, 120>>
    /\ UNCHANGED <<recVars, castVars, clockVars, child, child_wrote, child_wrote_err,
                   user_typed, envVars, master_buf, stderr_buf, stdin_buf, child_in, term_out,
                   term_err, ready_fds, pty_attrs, last_terminal_attrs,
                   last_winsize, loopVars, broadcast_queue, hubVars, playVars>>

ChildExit ==
    /\ InLoop
    /\ child = "alive"
    /\ child' = "zombie"
    /\ UNCHANGED <<recVars, castVars, clockVars, child_wrote, child_wrote_err,
                   user_typed, envVars, master_buf, stderr_buf, stdin_buf, child_in, term_out,
                   term_err, ready_fds, pty_attrs, pty_winsize, last_terminal_attrs,
                   last_winsize, loopVars, broadcast_queue, hubVars, playVars>>

UserType ==
    /\ InLoop
    /\ ~stdin_eof
    /\ user_typed < MaxIn
    /\ user_typed' = user_typed + 1
    /\ stdin_buf' = Append(stdin_buf, UserScript[user_typed + 1])
    /\ UNCHANGED <<recVars, castVars, clockVars, child, child_wrote, child_wrote_err,
                   envVars,
                   master_buf, stderr_buf, child_in, term_out, term_err, ready_fds,
                   pty_attrs, pty_winsize, last_terminal_attrs, last_winsize,
                   loopVars, broadcast_queue, hubVars, playVars>>

\* the recorder's stdin reaches end of file (a pipe whose writer is done)
UserCloseStdin ==
    /\ InLoop
    /\ ~stdin_eof
    /\ stdin_eof' = TRUE
    /\ UNCHANGED <<recVars, castVars, clockVars, child, child_wrote, child_wrote_err,
                   user_typed, child_sigint, tty_winsize, stderr_eof,
                   polls_since_resize, eof_reads, master_buf, stderr_buf, stdin_buf,
                   child_in, term_out, term_err, ready_fds, pty_attrs, pty_winsize,
                   last_terminal_attrs, last_winsize, loopVars, broadcast_queue,
                   hubVars, playVars>>

\* the child closes its fd 2 and goes on writing to fd 1
ChildCloseErr ==
    /\ InLoop
    /\ child = "alive"
    /\ ~stderr_eof
    /\ stderr_eof' = TRUE
    /\ UNCHANGED <<recVars, castVars, clockVars, child, child_wrote, child_wrote_err,
                   user_typed, child_sigint, tty_winsize, stdin_eof,
                   polls_since_resize, eof_reads, master_buf, stderr_buf, stdin_buf,
                   child_in, term_out, term_err, ready_fds, pty_attrs, pty_winsize,
                   last_terminal_attrs, last_winsize, loopVars, broadcast_queue,
                   hubVars, playVars>>

\* the user resizes the controlling terminal; SIGWINCH has its default
\* disposition in the recorder, which is to ignore it
OuterResize ==
    /\ InLoop
    /\ tty_winsize = <<24, 80>>
    /\ tty_winsize' = <<40, 120>>
    /\ polls_since_resize' = 0
    /\ UNCHANGED <<recVars, castVars, clockVars, child, child_wrote, child_wrote_err,
                   user_typed, child_sigint, stdin_eof, stderr_eof, eof_reads,
                   master_buf, stderr_buf, stdin_buf, child_in, term_out, term_err,
                   ready_fds, pty_attrs, pty_winsize, last_terminal_attrs,
                   last_winsize, loopVars, broadcast_queue, hubVars, playVars>>

\* time.time() advances
Tick ==
    /\ InLoop
    /\ wall < MaxWall
    /\ wall' = wall + 1
    /\ UNCHANGED <<recVars, castVars, start_time, ioVars, loopVars, broadcast_queue,
                   hubVars, playVars>>

\* the wall clock is set back (NTP step, settimeofday)
ClockStepBack ==
    /\ InLoop
    /\ \E d \in 1..MaxStepBack :
         /\ wall - d >= 0 - MaxStepBack
         /\ wall' = wall - d
    /\ UNCHANGED <<recVars, castVars, start_time, ioVars, loopVars, broadcast_queue,
                   hubVars, playVars>>

-----------------------------------------------------------------------------
(* AsciinemaRecorder._handle_io                                            *)

\* f"{height},{width}"
ResizePayload(height, width) == DecimalStr(height) \o <<44>> \o DecimalStr(width)

Readable(fd) ==
    CASE fd = "stdin"  -> stdin_buf # <<>> \/ stdin_eof
      [] fd = "master" -> master_buf # <<>> \/ child # "alive"
      [] fd = "stderr" -> stderr_buf # <<>> \/ child # "alive" \/ stderr_eof

\* select.select([stdin_fd, master_fd, stderr_fd], [], [], 0.1)
Select ==
    /\ pc = "io_select"
    /\ ready_fds' = SelectSeq(<<"stdin", "master", "stderr">>, Readable)
    /\ pc' = "io_check"
    /\ UNCHANGED <<monitor_enabled, stdin_isatty, tty_attrs, original_tty_settings,
                   raw_was_set, end_cause, castVars, clockVars, child, child_wrote,
                   child_wrote_err, user_typed, envVars, master_buf, stderr_buf, stdin_buf,
                   child_in, term_out, term_err, pty_attrs, pty_winsize,
                   last_terminal_attrs, last_winsize, loopVars, broadcast_queue,
                   hubVars, playVars>>

\* an 'r' event for every size read, the first one included
SizeChangedOrFirst(last, current) == last = <<>> \/ current # last[1]

\* self.last_winsize is not None and current_winsize != self.last_winsize
SizeChanged(last, current) == last # <<>> /\ current # last[1]

\* check_terminal_state_changes
CheckTerminalState ==
    /\ pc = "io_check"
    /\ LET attrs_changed == last_terminal_attrs # NoneValue
                            /\ pty_attrs # last_terminal_attrs
           size_changed == SizeChanged(last_winsize, pty_winsize)
           c1 == IF attrs_changed
                 THEN WriteEventCast(cast, "m", "terminal_attrs_changed", wall)
                 ELSE cast
           q1 == IF attrs_changed
                 THEN WriteEventQ(broadcast_queue, "m", "terminal_attrs_changed")
                 ELSE broadcast_queue
           payload == ResizePayload(pty_winsize[1], pty_winsize[2])
       IN  /\ last_terminal_attrs' = pty_attrs
           /\ last_winsize' = <<pty_winsize>>
           /\ cast' = IF size_changed THEN WriteEventCast(c1, "r", payload, wall)
                      ELSE c1
           /\ broadcast_queue' = IF size_changed THEN WriteEventQ(q1, "r", payload)
                                 ELSE q1
    /\ pc' = "io_reap"
    /\ polls_since_resize' = Min(polls_since_resize + 1, 2)
    /\ UNCHANGED <<monitor_enabled, stdin_isatty, tty_attrs, original_tty_settings,
                   raw_was_set, end_cause, cast_file, clockVars, child, child_wrote,
                   child_wrote_err, user_typed, child_sigint, tty_winsize, stdin_eof,
                   stderr_eof, eof_reads, master_buf, stderr_buf, stdin_buf,
                   child_in, term_out, term_err, ready_fds, pty_attrs, pty_winsize,
                   loopVars, hubVars, playVars>>
ReapNeverBreaks ==
    /\ pc = "io_reap"
    /\ pc' = IF ready_fds = <<>> THEN "io_select" ELSE "io_dispatch"
    /\ UNCHANGED <<child, end_cause>>
    /\ UNCHANGED <<monitor_enabled, stdin_isatty, tty_attrs, original_tty_settings,
                   raw_was_set, castVars, clockVars, child_wrote, child_wrote_err,
                   user_typed, envVars, master_buf, stderr_buf, stdin_buf, child_in, term_out,
                   term_err, ready_fds, pty_attrs, pty_winsize, last_terminal_attrs,
                   last_winsize, loopVars, broadcast_queue, hubVars, playVars>>

\* os.waitpid(child_pid, os.WNOHANG): if pid != 0: break
Reap ==
    /\ pc = "io_reap"
    /\ IF child = "zombie"
       THEN /\ child' = "reaped"
            /\ pc' = "io_closing"
            /\ end_cause' = "child_exit"
       ELSE /\ pc' = IF ready_fds = <<>> THEN "io_select" ELSE "io_dispatch"
            /\ UNCHANGED <<child, end_cause>>
    /\ UNCHANGED <<monitor_enabled, stdin_isatty, tty_attrs, original_tty_settings,
                   raw_was_set, castVars, clockVars, child_wrote, child_wrote_err,
                   user_typed, envVars, master_buf, stderr_buf, stdin_buf, child_in, term_out,
                   term_err, ready_fds, pty_attrs, pty_winsize, last_terminal_attrs,
                   last_winsize, loopVars, broadcast_queue, hubVars, playVars>>

\* the position after one fd of ready_fds was handled
AfterFd == IF Len(ready_fds) > 1 THEN "io_dispatch" ELSE "io_select"

\* os.write(fd, data) accepted n bytes; the return value is not looked at
Written(data, n) == FirstN(data, n)

\* a zero-length read on any fd makes the loop return
AfterEofLeaves(fd) == "io_closing"

\* the position after a zero-length read on fd: return for master_fd, nothing
\* for stdin_fd (if data: is false) and for stderr_fd (pass)
AfterEof(fd) == IF fd = "master" THEN "io_closing" ELSE AfterFd

\* fd == stdin_fd: os.read; data: os.write(master_fd, data),
\* write_event("i", ...); no data (EOF): nothing
DispatchStdin ==
    /\ pc = "io_dispatch"
    /\ Head(ready_fds) = "stdin"
    /\ IF stdin_buf # <<>>
       THEN LET data == FirstN(stdin_buf, ReadChunk)
            IN  /\ stdin_buf' = SubSeq(stdin_buf, Len(data) + 1, Len(stdin_buf))
                /\ \E n \in 1..Len(data) : child_in' = child_in \o Written(data, n)
                /\ cast' = WriteEventCast(cast, "i", Decode(data), wall)
                /\ broadcast_queue' = WriteEventQ(broadcast_queue, "i", Decode(data))
                /\ pc' = AfterFd
                /\ UNCHANGED eof_reads
       ELSE /\ pc' = AfterEof("stdin")
            /\ eof_reads' = eof_reads \cup {"stdin"}
            /\ UNCHANGED <<stdin_buf, child_in, cast, broadcast_queue>>
    /\ ready_fds' = Tail(ready_fds)
    /\ UNCHANGED <<monitor_enabled, stdin_isatty, tty_attrs, original_tty_settings,
                   raw_was_set, end_cause, cast_file, clockVars, child, child_wrote,
                   child_wrote_err, user_typed, child_sigint, tty_winsize, stdin_eof,
                   stderr_eof, polls_since_resize, master_buf, stderr_buf, term_out,
                   term_err, pty_attrs, pty_winsize, last_terminal_attrs,
                   last_winsize, loopVars, hubVars, playVars>>

\* fd == master_fd: os.read; data: os.write(stdout_fd, data), write_event("o");
\* no data (EOF) or OSError (EIO once the slave is closed): return
DispatchMaster ==
    /\ pc = "io_dispatch"
    /\ Head(ready_fds) = "master"
    /\ master_buf # <<>> => ScheduleBroadcastReturns
    /\ IF master_buf # <<>>
       THEN LET data == FirstN(master_buf, ReadChunk)
            IN  /\ master_buf' = SubSeq(master_buf, Len(data) + 1, Len(master_buf))
                /\ \E n \in 1..Len(data) : term_out' = term_out \o Written(data, n)
                /\ cast' = WriteEventCast(cast, "o", Decode(data), wall)
                /\ broadcast_queue' = WriteEventQ(broadcast_queue, "o", Decode(data))
                /\ ready_fds' = Tail(ready_fds)
                /\ pc' = AfterFd
                /\ UNCHANGED <<end_cause, eof_reads>>
       ELSE /\ pc' = AfterEof("master")
            /\ end_cause' = "master_eof"
            /\ eof_reads' = eof_reads \cup {"master"}
            /\ UNCHANGED <<master_buf, term_out, cast, broadcast_queue, ready_fds>>
    /\ UNCHANGED <<monitor_enabled, stdin_isatty, tty_attrs, original_tty_settings,
                   raw_was_set, cast_file, clockVars, child, child_wrote,
                   child_wrote_err, user_typed, child_sigint, tty_winsize, stdin_eof,
                   stderr_eof, polls_since_resize, stderr_buf, stdin_buf, child_in,
                   term_err, pty_attrs, pty_winsize, last_terminal_attrs,
                   last_winsize, loopVars, hubVars, playVars>>

\* fd == stderr_fd: os.read; data: os.write(stderr_out_fd, data),
\* write_event("e"); EOF: pass
DispatchStderr ==
    /\ pc = "io_dispatch"
    /\ Head(ready_fds) = "stderr"
    /\ stderr_buf # <<>> => ScheduleBroadcastReturns
    /\ IF stderr_buf # <<>>
       THEN LET data == FirstN(stderr_buf, ReadChunk)
            IN  /\ stderr_buf' = SubSeq(stderr_buf, Len(data) + 1, Len(stderr_buf))
                /\ \E n \in 1..Len(data) : term_err' = term_err \o Written(data, n)
                /\ cast' = WriteEventCast(cast, "e", Decode(data), wall)
                /\ broadcast_queue' = WriteEventQ(broadcast_queue, "e", Decode(data))
                /\ pc' = AfterFd
                /\ UNCHANGED eof_reads
       ELSE /\ pc' = AfterEof("stderr")
            /\ eof_reads' = eof_reads \cup {"stderr"}
            /\ UNCHANGED <<stderr_buf, term_err, cast, broadcast_queue>>
    /\ ready_fds' = Tail(ready_fds)
    /\ UNCHANGED <<monitor_enabled, stdin_isatty, tty_attrs, original_tty_settings,
                   raw_was_set, end_cause, cast_file, clockVars, child, child_wrote,
                   child_wrote_err, user_typed, child_sigint, tty_winsize, stdin_eof,
                   stderr_eof, polls_since_resize, master_buf, stdin_buf, child_in,
                   term_out, pty_attrs, pty_winsize, last_terminal_attrs,
                   last_winsize, loopVars, hubVars, playVars>>

\* SIGINT inside the loop's try: except KeyboardInterrupt forwards it to the
\* child with os.kill, the while loop goes on with the next select
SigIntInLoop ==
    /\ InLoop
    /\ pc' = "io_select"
    /\ ready_fds' = <<>>
    /\ child_sigint' = TRUE
    /\ UNCHANGED <<monitor_enabled, stdin_isatty, tty_attrs, original_tty_settings,
                   raw_was_set, end_cause, castVars, clockVars, child, child_wrote,
                   child_wrote_err, user_typed, tty_winsize, stdin_eof, stderr_eof,
                   polls_since_resize, eof_reads, master_buf, stderr_buf, stdin_buf,
                   child_in, term_out, term_err, pty_attrs, pty_winsize,
                   last_terminal_attrs, last_winsize, loopVars, broadcast_queue,
                   hubVars, playVars>>

\* the bytes unread on an fd of the select list
BufOf(fd) ==
    CASE fd = "stdin"  -> stdin_buf
      [] fd = "master" -> master_buf
      [] fd = "stderr" -> stderr_buf

\* SIGINT while one fd of ready_fds is handled: KeyboardInterrupt is raised
\* after os.read has returned data, before os.write (stage "read") or between
\* os.write and write_event (stage "written"); the except clause forwards the
\* signal and the loop goes on with the next select, data is dropped
SigIntAfterRead(fd, stage) ==
    /\ pc = "io_dispatch"
    /\ Head(ready_fds) = fd
    /\ BufOf(fd) # <<>>
    /\ LET data == FirstN(BufOf(fd), ReadChunk)
           rest == SubSeq(BufOf(fd), Len(data) + 1, Len(BufOf(fd)))
           wrote == IF stage = "written" THEN data ELSE <<>>
       IN  /\ stdin_buf' = IF fd = "stdin" THEN rest ELSE stdin_buf
           /\ master_buf' = IF fd = "master" THEN rest ELSE master_buf
           /\ stderr_buf' = IF fd = "stderr" THEN rest ELSE stderr_buf
           /\ child_in' = IF fd = "stdin" THEN child_in \o wrote ELSE child_in
           /\ term_out' = IF fd = "master" THEN term_out \o wrote ELSE term_out
           /\ term_err' = IF fd = "stderr" THEN term_err \o wrote ELSE term_err
    /\ pc' = "io_select"
    /\ ready_fds' = <<>>
    /\ child_sigint' = TRUE
    /\ UNCHANGED <<monitor_enabled, stdin_isatty, tty_attrs, original_tty_settings,
                   raw_was_set, end_cause, castVars, clockVars, child, child_wrote,
                   child_wrote_err, user_typed, tty_winsize, stdin_eof, stderr_eof,
                   polls_since_resize, eof_reads, pty_attrs, pty_winsize,
                   last_terminal_attrs, last_winsize, loopVars, broadcast_queue,
                   hubVars, playVars>>

-----------------------------------------------------------------------------
(* The end of record_session.                                              *)

\* the finally around _handle_io: os.close twice, os.waitpid(pid, 0) blocks
\* until the child has exited (OSError if it was reaped already)
CloseAndWait ==
    /\ pc = "io_closing"
    /\ child # "alive"
    /\ child' = "reaped"
    /\ pc' = "restore"
    /\ UNCHANGED <<monitor_enabled, stdin_isatty, tty_attrs, original_tty_settings,
                   raw_was_set, end_cause, castVars, clockVars, child_wrote,
                   child_wrote_err, user_typed, envVars, master_buf, stderr_buf, stdin_buf,
                   child_in, term_out, term_err, ready_fds, pty_attrs, pty_winsize,
                   last_terminal_attrs, last_winsize, loopVars, broadcast_queue,
                   hubVars, playVars>>

\* the outer finally: restore_terminal(), self.cast_file.close()
RestoreAndClose ==
    /\ pc = "restore"
    /\ tty_attrs' = IF original_tty_settings # NoneValue THEN original_tty_settings
                    ELSE tty_attrs
    /\ cast_file' = IF cast_file = "open" THEN "closed" ELSE cast_file
    /\ pc' = "exited"
    /\ UNCHANGED <<monitor_enabled, stdin_isatty, original_tty_settings, raw_was_set,
                   end_cause, cast, clockVars, ioVars, loopVars, broadcast_queue,
                   hubVars, playVars>>

\* SIGINT between setup_terminal and the try: KeyboardInterrupt leaves
\* record_session and main, no finally is on the way
SigIntBeforeTry ==
    /\ pc = "start_monitor"
    /\ pc' = "exited"
    /\ end_cause' = "sigint"
    /\ UNCHANGED <<monitor_enabled, stdin_isatty, tty_attrs, original_tty_settings,
                   raw_was_set, castVars, clockVars, ioVars, loopVars,
                   broadcast_queue, hubVars, playVars>>

\* SIGTERM or SIGHUP: no handler is installed, the process is terminated
SigTerm ==
    /\ pc \notin {"write_header", "exited", "killed"}
    /\ pc' = "killed"
    /\ end_cause' = "sigterm"
    /\ UNCHANGED <<monitor_enabled, stdin_isatty, tty_attrs, original_tty_settings,
                   raw_was_set, castVars, clockVars, ioVars, loopVars,
                   broadcast_queue, hubVars, playVars>>

-----------------------------------------------------------------------------
(* The monitor.                                                            *)

IdleDrain == [pc |-> "idle", msg |-> <<>>, copy |-> {}, sent |-> {},
              disconnected |-> {}, awaiting |-> {}]

\* the monitor's threads are daemon threads: they run while the process does
ProcessAlive == pc \notin {"exited", "killed"}

\* _run_websocket_server, on the thread start_server started: the queue is
\* created, the drain task and the server start
HubThreadInit ==
    /\ ProcessAlive
    /\ event_loop /\ running
    /\ ~queue_ready
    /\ queue_ready' = TRUE
    /\ broadcast_queue' = <<>>
    /\ UNCHANGED <<recVars, castVars, clockVars, ioVars, event_loop, running,
                   hubVars, playVars>>

\* the recorder's loop calls write_event(kind, data); the payload of the
\* k-th event is the one-character string <<k>>
LoopWriteEvent ==
    /\ pc = "io_select"
    /\ ScheduleBroadcastReturns
    /\ Len(cast) - 1 < MaxEvents
    /\ \E kind \in EventKinds :
         /\ cast' = WriteEventCast(cast, kind, <<Len(cast)>>, wall)
         /\ broadcast_queue' = WriteEventQ(broadcast_queue, kind, <<Len(cast)>>)
    /\ UNCHANGED <<recVars, cast_file, clockVars, ioVars, loopVars, hubVars,
                   playVars>>

ConnectSyncLater(v) ==
    /\ ProcessAlive
    /\ queue_ready
    /\ conn[v] = "none"
    /\ \A w \in Viewers : w < v => conn[w] # "none"
    /\ clients' = clients \cup {v}
    /\ conn' = [conn EXCEPT ![v] = "syncing"]
    /\ attached_at' = [attached_at EXCEPT ![v] = Len(taken)]
    /\ published_at' = [published_at EXCEPT ![v] = Len(cast) - 1]
    /\ UNCHANGED <<inbox, recVars, castVars, clockVars, ioVars, loopVars, broadcast_queue,
                   recent_output, drain, stored, taken, send_failed, handled,
                   playVars>>

\* handle_websocket_client up to the await of send: the viewer joins the
\* registry, the snapshot is taken and written to its socket.  Viewers are
\* interchangeable: they connect in the order of their numbers.
Connect(v) ==
    /\ ProcessAlive
    /\ queue_ready
    /\ conn[v] = "none"
    /\ \A w \in Viewers : w < v => conn[w] # "none"
    /\ clients' = clients \cup {v}
    /\ inbox' = [inbox EXCEPT ![v] = Append(@, GetSyncData(recent_output, wall))]
    /\ conn' = [conn EXCEPT ![v] = "syncing"]
    /\ attached_at' = [attached_at EXCEPT ![v] = Len(taken)]
    /\ published_at' = [published_at EXCEPT ![v] = Len(cast) - 1]
    /\ UNCHANGED <<recVars, castVars, clockVars, ioVars, loopVars, broadcast_queue,
                   recent_output, drain, stored, taken, send_failed, handled,
                   playVars>>

\* the await of the sync's send returns; the handler waits for messages
SyncDone(v) ==
    /\ ProcessAlive
    /\ conn[v] = "syncing"
    /\ conn' = [conn EXCEPT ![v] = "open"]
    /\ UNCHANGED <<recVars, castVars, clockVars, ioVars, loopVars, broadcast_queue,
                   clients, recent_output, inbox, drain, stored, taken, attached_at,
                   published_at, send_failed, handled, playVars>>

\* the peer closes the connection
PeerClose(v) ==
    /\ conn[v] \in {"syncing", "open"}
    /\ conn' = [conn EXCEPT ![v] = "closed"]
    /\ UNCHANGED <<recVars, castVars, clockVars, ioVars, loopVars, broadcast_queue,
                   clients, recent_output, inbox, drain, stored, taken, attached_at,
                   published_at, send_failed, handled, playVars>>

\* the handler sees the close: except ConnectionClosed, finally discard
HandlerExit(v) ==
    /\ ProcessAlive
    /\ conn[v] = "closed"
    /\ clients' = clients \ {v}
    /\ conn' = [conn EXCEPT ![v] = "gone"]
    /\ UNCHANGED <<recVars, castVars, clockVars, ioVars, loopVars, broadcast_queue,
                   recent_output, inbox, drain, stored, taken, attached_at,
                   published_at, send_failed, handled, playVars>>

\* what a viewer may send: a client_hello object, another JSON object, a JSON
\* value that is no object (a number, a string, an array, null), text that is
\* not JSON
ClientMessages == {"client_hello", "object", "nonobject", "notjson"}

\* one pass of async for message in websocket: json.loads, data.get('type').
\* JSONDecodeError is caught; a value without get raises AttributeError, which
\* leaves the handler through its finally (discard) and closes the connection
ClientMessage(v, message) ==
    /\ ProcessAlive
    /\ conn[v] = "open"
    /\ handled[v] < MaxMsgs
    /\ handled' = [handled EXCEPT ![v] = @ + 1]
    /\ IF message = "nonobject"
       THEN /\ clients' = clients \ {v}
            /\ conn' = [conn EXCEPT ![v] = "gone"]
       ELSE UNCHANGED <<clients, conn>>
    /\ UNCHANGED <<recVars, castVars, clockVars, ioVars, loopVars, broadcast_queue,
                   recent_output, inbox, drain, stored, taken, attached_at,
                   published_at, send_failed, playVars>>

DequeueLifo(q) == [item |-> q[Len(q)], rest |-> SubSeq(q, 1, Len(q) - 1)]

\* asyncio.Queue.get
Dequeue(q) == [item |-> Head(q), rest |-> Tail(q)]

\* _process_broadcast_queue takes an item; broadcast_event up to its first send
DrainGet ==
    /\ ProcessAlive
    /\ queue_ready /\ running
    /\ drain.pc = "idle"
    /\ broadcast_queue # <<>>
    /\ LET got == Dequeue(broadcast_queue)
           item == got.item
       IN  /\ broadcast_queue' = got.rest
           /\ taken' = Append(taken, item)
           /\ IF clients = {} \/ ~running
              THEN UNCHANGED <<recent_output, stored, drain>>
              ELSE /\ recent_output' =
                        ProcessOutput(recent_output, item.event_type, item.data, wall)
                   /\ stored' = Append(stored, [timestamp |-> wall,
                                                event_type |-> item.event_type,
                                                data |-> item.data])
                   /\ drain' = [pc |-> "sending",
                                msg |-> <<[type |-> "terminal_data",
                                           timestamp |-> wall,
                                           event_type |-> item.event_type,
                                           data |-> item.data]>>,
                                copy |-> clients, sent |-> {}, disconnected |-> {},
                                awaiting |-> {}]
    /\ UNCHANGED <<recVars, castVars, clockVars, ioVars, loopVars, clients, conn,
                   inbox, attached_at, published_at, send_failed, handled, playVars>>

BroadcastTargetsLive == clients \ drain.sent

\* for client in self.clients.copy(): the clients not yet sent to
BroadcastTargets == drain.copy \ drain.sent

DrainSendAborts(v) ==
    /\ ProcessAlive
    /\ drain.pc = "sending"
    /\ v \in BroadcastTargets
    /\ conn[v] # "stalled"
    /\ IF conn[v] \in {"closed", "gone"}
       THEN /\ drain' = [drain EXCEPT !.sent = drain.copy,
                                      !.disconnected = @ \cup {v}]
            /\ send_failed' = send_failed \cup {v}
            /\ UNCHANGED inbox
       ELSE /\ drain' = [drain EXCEPT !.sent = @ \cup {v}]
            /\ inbox' = [inbox EXCEPT ![v] = Append(@, drain.msg[1])]
            /\ UNCHANGED send_failed
    /\ UNCHANGED <<recVars, castVars, clockVars, ioVars, loopVars, broadcast_queue,
                   clients, recent_output, conn, stored, taken, attached_at,
                   published_at, handled, playVars>>

\* await client.send(message_json), ConnectionClosed caught.  send either
\* writes the frame or, the connection being closed, raises ConnectionClosed.
DrainSend(v) ==
    /\ ProcessAlive
    /\ drain.pc = "sending"
    /\ v \in BroadcastTargets
    /\ conn[v] # "stalled"
    /\ IF conn[v] \in {"closed", "gone"}
       THEN /\ drain' = [drain EXCEPT !.sent = @ \cup {v},
                                      !.disconnected = @ \cup {v}]
            /\ send_failed' = send_failed \cup {v}
            /\ UNCHANGED inbox
       ELSE /\ drain' = [drain EXCEPT !.sent = @ \cup {v}]
            /\ inbox' = [inbox EXCEPT ![v] = Append(@, drain.msg[1])]
            /\ UNCHANGED send_failed
    /\ UNCHANGED <<recVars, castVars, clockVars, ioVars, loopVars, broadcast_queue,
                   clients, recent_output, conn, stored, taken, attached_at,
                   published_at, handled, playVars>>

\* the viewer stops reading: the buffers between the server and it fill up
PeerStall(v) ==
    /\ conn[v] = "open"
    /\ conn' = [conn EXCEPT ![v] = "stalled"]
    /\ UNCHANGED <<recVars, castVars, clockVars, ioVars, loopVars, broadcast_queue,
                   clients, recent_output, inbox, drain, stored, taken, attached_at,
                   published_at, send_failed, handled, playVars>>

\* await client.send(message_json) for a viewer whose write buffer is full:
\* send waits for the buffer to drain, the for loop and the drain task with it
DrainAwaitStalled(v) ==
    /\ ProcessAlive
    /\ drain.pc = "sending"
    /\ v \in BroadcastTargets
    /\ conn[v] = "stalled"
    /\ drain' = [drain EXCEPT !.pc = "blocked", !.awaiting = {v}]
    /\ UNCHANGED <<recVars, castVars, clockVars, ioVars, loopVars, broadcast_queue,
                   clients, recent_output, conn, inbox, stored, taken, attached_at,
                   published_at, send_failed, handled, playVars>>

\* the viewer reads again: a send that was waiting for it writes its frame
PeerResume(v) ==
    /\ conn[v] = "stalled"
    /\ conn' = [conn EXCEPT ![v] = "open"]
    /\ IF drain.awaiting = {v}
       THEN /\ drain' = [drain EXCEPT !.pc = "sending", !.awaiting = {},
                                      !.sent = @ \cup {v}]
            /\ inbox' = [inbox EXCEPT ![v] = Append(@, drain.msg[1])]
       ELSE UNCHANGED <<drain, inbox>>
    /\ UNCHANGED <<recVars, castVars, clockVars, ioVars, loopVars, broadcast_queue,
                   clients, recent_output, stored, taken, attached_at,
                   published_at, send_failed, handled, playVars>>

\* the library's keepalive gives the stalled viewer up and closes the
\* connection: the send that was waiting raises ConnectionClosed
StalledSendFails(v) ==
    /\ ProcessAlive
    /\ drain.pc = "blocked"
    /\ drain.awaiting = {v}
    /\ conn' = [conn EXCEPT ![v] = "closed"]
    /\ drain' = [drain EXCEPT !.pc = "sending", !.awaiting = {},
                              !.sent = @ \cup {v}, !.disconnected = @ \cup {v}]
    /\ send_failed' = send_failed \cup {v}
    /\ UNCHANGED <<recVars, castVars, clockVars, ioVars, loopVars, broadcast_queue,
                   clients, recent_output, inbox, stored, taken, attached_at,
                   published_at, handled, playVars>>

EvictNone(registry, disconnected) == registry

\* self.clients -= disconnected
Evict(registry, disconnected) == registry \ disconnected

\* self.clients -= disconnected; back to the queue
DrainFinish ==
    /\ ProcessAlive
    /\ drain.pc = "sending"
    /\ BroadcastTargets = {}
    /\ clients' = Evict(clients, drain.disconnected)
    /\ drain' = IdleDrain
    /\ UNCHANGED <<recVars, castVars, clockVars, ioVars, loopVars, broadcast_queue,
                   recent_output, conn, inbox, stored, taken, attached_at,
                   published_at, send_failed, handled, playVars>>

-----------------------------------------------------------------------------
(* Initial states: the objects as their constructors leave them.           *)

\* AsciinemaRecorder.__init__ and the process around it
RecorderConstructed ==
    /\ pc = "write_header"
    /\ tty_attrs = "cooked"
    /\ original_tty_settings = NoneValue
    /\ raw_was_set = FALSE
    /\ end_cause = NoneValue
    /\ cast_file = NoneValue
    /\ cast = <<>>
    /\ start_time = wall
    /\ child = "none"
    /\ child_wrote = 0 /\ child_wrote_err = 0 /\ user_typed = 0
    /\ child_sigint = FALSE
    /\ tty_winsize = <<24, 80>>
    /\ stdin_eof = FALSE
    /\ stderr_eof = FALSE
    /\ polls_since_resize = 2
    /\ eof_reads = {}
    /\ master_buf = <<>> /\ stderr_buf = <<>> /\ stdin_buf = <<>>
    /\ child_in = <<>> /\ term_out = <<>> /\ term_err = <<>>
    /\ ready_fds = <<>>
    /\ pty_attrs = "cooked"
    /\ pty_winsize = <<0, 0>>
    /\ last_terminal_attrs = NoneValue
    /\ last_winsize = <<>>

\* WebSocketMonitorServer.__init__, TerminalState.__init__
MonitorConstructed ==
    /\ event_loop = FALSE
    /\ running = FALSE
    /\ queue_ready = FALSE
    /\ broadcast_queue = <<>>
    /\ clients = {}
    /\ recent_output = <<>>
    /\ conn = [v \in Viewers |-> "none"]
    /\ inbox = [v \in Viewers |-> <<>>]
    /\ drain = IdleDrain
    /\ stored = <<>>
    /\ taken = <<>>
    /\ attached_at = [v \in Viewers |-> 0]
    /\ published_at = [v \in Viewers |-> 0]
    /\ send_failed = {}
    /\ handled = [v \in Viewers |-> 0]

\* load_cast_file is not running
LoaderIdle ==
    /\ file_header = "none"
    /\ file_lines = <<>>
    /\ lpc = "none"
    /\ line_num = 0
    /\ load_warnings = <<>>

\* no player in this process
PlayerAbsent ==
    /\ events = <<>>
    /\ speed = 1
    /\ max_delay = 0
    /\ paused = FALSE
    /\ skip_to_next = FALSE
    /\ ppc = "none"
    /\ event_index = 0
    /\ last_timestamp = 0
    /\ remaining_delay = 0
    /\ play_out = <<>>
    /\ play_err = <<>>
    /\ play_tty = "cooked"
    /\ keys_left = 0
    /\ waited = 0
    /\ longest_sleep = 0
    /\ key_seen = FALSE
    /\ emitted = <<>>
    /\ skip_anchor = 0
    /\ space_since_tab = FALSE
    /\ last_key = "none"
    /\ outcome = "none"

-----------------------------------------------------------------------------
(* SpecHub: a recording with --monitor on a terminal.                      *)

InitHub ==
    /\ wall = 0
    /\ monitor_enabled = TRUE
    /\ stdin_isatty = TRUE
    /\ RecorderConstructed
    /\ MonitorConstructed
    /\ PlayerAbsent
    /\ LoaderIdle

NextHub ==
    \/ WriteHeaderOk
    \/ SetupTerminal
    \/ StartMonitorOk
    \/ SpawnOk
    \/ HubThreadInit
    \/ LoopWriteEvent
    \/ \E v \in Viewers : Connect(v)
    \/ \E v \in Viewers : SyncDone(v)
    \/ \E v \in Viewers : PeerClose(v)
    \/ \E v \in Viewers : HandlerExit(v)
    \/ DrainGet
    \/ \E v \in Viewers : DrainSend(v)
    \/ DrainFinish

SpecHub == InitHub /\ [][NextHub]_vars

-----------------------------------------------------------------------------
(* SpecSlow: a recording with --monitor whose viewers stop reading and     *)
(* read again.                                                             *)

NextSlow ==
    \/ WriteHeaderOk
    \/ SetupTerminal
    \/ StartMonitorOk
    \/ SpawnOk
    \/ HubThreadInit
    \/ LoopWriteEvent
    \/ \E v \in Viewers : Connect(v)
    \/ \E v \in Viewers : SyncDone(v)
    \/ \E v \in Viewers : PeerStall(v)
    \/ \E v \in Viewers : PeerResume(v)
    \/ DrainGet
    \/ \E v \in Viewers : DrainSend(v)
    \/ \E v \in Viewers : DrainAwaitStalled(v)
    \/ \E v \in Viewers : StalledSendFails(v)
    \/ DrainFinish

SpecSlow == InitHub /\ [][NextSlow]_vars

-----------------------------------------------------------------------------
(* What a viewer has received.                                             *)

\* the payloads of the terminal_data messages of viewer v, in arrival order
DataOf(v) ==
    LET idx == {i \in 1..Len(inbox[v]) : inbox[v][i].type = "terminal_data"}
        msgs == SelectSeqOf(inbox[v], idx)
    IN  [i \in 1..Len(msgs) |-> msgs[i].data]

\* the terminal_sync messages of viewer v
SyncsOf(v) ==
    SelectSeqOf(inbox[v], {i \in 1..Len(inbox[v]) : inbox[v][i].type = "terminal_sync"})

\* the payloads in the snapshot of viewer v
SnapshotOf(v) ==
    IF SyncsOf(v) = <<>> THEN {}
    ELSE {SyncsOf(v)[1].recent_output[i].data :
             i \in 1..Len(SyncsOf(v)[1].recent_output)}

Count(s, x) == Cardinality({i \in 1..Len(s) : s[i] = x})

\* the payloads of the 'o'/'e' events written after viewer v attached
PublishedAfterAttach(v) ==
    {cast[i].data : i \in {j \in (published_at[v] + 2)..Len(cast) :
                              cast[j].kind \in {"o", "e"}}}

\* the payloads the drain task has still to bring to viewer v
InFlightFor(v) ==
    {broadcast_queue[i].data : i \in 1..Len(broadcast_queue)}
    \cup (IF drain.pc = "sending" /\ v \in drain.copy \ drain.sent
          THEN {drain.msg[1].data} ELSE {})

Attached(v) == conn[v] \in {"syncing", "open"}

\* the payloads of a sequence of queue items or buffer entries
PayloadsOf(s) == [i \in 1..Len(s) |-> s[i].data]

\* the items the drain task had handled when viewer v attached
HandledBefore(v) == SubSeq(taken, 1, attached_at[v])

\* C2: output events published and handled while no viewer was connected are in
\* the Replay Buffer: the first viewer's terminal_sync holds the last
\* min(N, 100) of the N <= B events handled before it attached, in order, and
\* reports total_events = N.
C2_StoredWithoutViewer ==
    LET N == Len(HandledBefore(1))
    IN  (SyncsOf(1) # <<>> /\ N <= BufferSize) =>
            /\ PayloadsOf(SyncsOf(1)[1].recent_output)
                  = PayloadsOf(LastN(HandledBefore(1), Min(N, SyncWindow)))
            /\ SyncsOf(1)[1].buffer_info.total_events = N


\* C3: under every interleaving of the connection handlers and the drain task,
\* no event is both in a viewer's sync snapshot and delivered to it as
\* terminal_data, no terminal_data is delivered to it twice, and every event
\* published after a (still connected) viewer attached and no longer in flight
\* has been delivered to it exactly once.
C3_SyncAtomic ==
    \A v \in Viewers :
        /\ SnapshotOf(v) \cap Range(DataOf(v)) = {}
        /\ \A d \in Range(DataOf(v)) : Count(DataOf(v), d) = 1
        /\ Attached(v) =>
              \A d \in PublishedAfterAttach(v) \ InFlightFor(v) :
                  Count(DataOf(v), d) = 1

\* a viewer attached while a broadcast was under way, holds the broadcast event
\* in its snapshot, and got a later event live
C3_Witness ==
    \E v \in Viewers :
        /\ Attached(v)
        /\ SnapshotOf(v) # {}
        /\ \E w \in Viewers \ {v} : SnapshotOf(v) \cap Range(DataOf(w)) # {}
        /\ PublishedAfterAttach(v) # {}
        /\ DataOf(v) # <<>>

\* C4: the terminal_data messages of every viewer arrive in the order in which
\* the recorder called write_event / schedule_broadcast (payload k belongs to the
\* k-th write_event call).
C4_PublishOrder ==
    \A v \in Viewers :
        \A i, j \in 1..Len(DataOf(v)) :
            i < j => DataOf(v)[i][1] < DataOf(v)[j][1]

C4_Witness ==
    \E v \in Viewers : Len(DataOf(v)) >= 2

-----------------------------------------------------------------------------
(* SpecRec: a recording: the bytes of the child and of the user through    *)
(* the I/O loop, the controlling terminal, the signals.                    *)

InitRec ==
    /\ wall = 0
    /\ monitor_enabled \in BOOLEAN
    /\ stdin_isatty \in BOOLEAN
    /\ RecorderConstructed
    /\ MonitorConstructed
    /\ PlayerAbsent
    /\ LoaderIdle

NextRec ==
    \/ WriteHeaderOk
    \/ WriteHeaderFails
    \/ SetupTerminal
    \/ StartMonitorOk
    \/ StartMonitorFails
    \/ SpawnOk
    \/ SpawnFails
    \/ ChildWrite
    \/ ChildWriteErr
    \/ ChildExit
    \/ UserType
    \/ Select
    \/ CheckTerminalState
    \/ Reap
    \/ DispatchStdin
    \/ DispatchMaster
    \/ DispatchStderr
    \/ SigIntInLoop
    \/ \E fd \in {"stdin", "master", "stderr"}, stage \in {"read", "written"} :
          SigIntAfterRead(fd, stage)
    \/ CloseAndWait
    \/ RestoreAndClose
    \/ SigIntBeforeTry
    \/ SigTerm

SpecRec == InitRec /\ [][NextRec]_vars

-----------------------------------------------------------------------------
(* SpecClock: a recording whose child writes to its stdout and changes the *)
(* line discipline and the window size of its pty, under a wall clock that *)
(* advances and is adjusted.                                               *)

InitClock ==
    /\ wall = 0
    /\ monitor_enabled = FALSE
    /\ stdin_isatty = TRUE
    /\ RecorderConstructed
    /\ MonitorConstructed
    /\ PlayerAbsent
    /\ LoaderIdle

NextClock ==
    \/ WriteHeaderOk
    \/ SetupTerminal
    \/ StartMonitorOk
    \/ SpawnOk
    \/ ChildWrite
    \/ ChildSetAttrs
    \/ ChildResize
    \/ OuterResize
    \/ ChildExit
    \/ Tick
    \/ ClockStepBack
    \/ Select
    \/ CheckTerminalState
    \/ Reap
    \/ DispatchMaster
    \/ CloseAndWait
    \/ RestoreAndClose

SpecClock == InitClock /\ [][NextClock]_vars

-----------------------------------------------------------------------------
(* SpecEof: a recording whose stdin reaches end of file and whose child    *)
(* closes its stderr while it goes on writing to its stdout.               *)

InitEof ==
    /\ wall = 0
    /\ monitor_enabled = FALSE
    /\ stdin_isatty = FALSE
    /\ RecorderConstructed
    /\ MonitorConstructed
    /\ PlayerAbsent
    /\ LoaderIdle

NextEof ==
    \/ WriteHeaderOk
    \/ SetupTerminal
    \/ StartMonitorOk
    \/ SpawnOk
    \/ ChildWrite
    \/ ChildWriteErr
    \/ ChildCloseErr
    \/ ChildExit
    \/ UserType
    \/ UserCloseStdin
    \/ Select
    \/ CheckTerminalState
    \/ Reap
    \/ DispatchStdin
    \/ DispatchMaster
    \/ DispatchStderr
    \/ CloseAndWait
    \/ RestoreAndClose

SpecEof == InitEof /\ [][NextEof]_vars

-----------------------------------------------------------------------------
(* SpecSession: a monitored recording from its start to the exit of the    *)
(* process, with viewers attached while the child writes and exits.        *)

InitSession ==
    /\ wall = 0
    /\ monitor_enabled = TRUE
    /\ stdin_isatty = TRUE
    /\ RecorderConstructed
    /\ MonitorConstructed
    /\ PlayerAbsent
    /\ LoaderIdle

NextSession ==
    \/ WriteHeaderOk
    \/ SetupTerminal
    \/ StartMonitorOk
    \/ SpawnOk
    \/ HubThreadInit
    \/ \E v \in Viewers : Connect(v)
    \/ \E v \in Viewers : SyncDone(v)
    \/ ChildWrite
    \/ ChildExit
    \/ Select
    \/ CheckTerminalState
    \/ Reap
    \/ DispatchMaster
    \/ DrainGet
    \/ \E v \in Viewers : DrainSend(v)
    \/ DrainFinish
    \/ \E v \in Viewers, message \in ClientMessages : ClientMessage(v, message)
    \/ CloseAndWait
    \/ RestoreAndClose

SpecSession == InitSession /\ [][NextSession]_vars

-----------------------------------------------------------------------------
(* What a recording left behind.                                           *)

\* the payloads of the events of one kind in the cast file, concatenated
CastPayload(kind) ==
    LET idx == {i \in 2..Len(cast) : cast[i].kind = kind}
        lines == SelectSeqOf(cast, idx)
    IN  Concat([i \in 1..Len(lines) |-> lines[i].data])

\* the bytes the child has written to its stdout so far
ChildWritten == SubSeq(ChildScript, 1, child_wrote)

\* the bytes the recorder has read from its stdin so far
StdinConsumed == SubSeq(UserScript, 1, user_typed - Len(stdin_buf))

\* C1: when the loop is left because the reap reported the child as exited,
\* nothing the child wrote is left unread on master_fd, and after a recording
\* whose child exited every byte the child wrote to its stdout has been written
\* to the recorder's stdout and stands, in order, in the 'o' payloads.
C1_OutputDrainedAndRecorded ==
    /\ (pc = "io_closing" /\ end_cause = "child_exit") => master_buf = <<>>
    /\ (pc = "exited" /\ end_cause = "child_exit") =>
          /\ term_out = ChildWritten
          /\ CastPayload("o") = Decode(ChildWritten)

\* C6: the timestamps of the events of the cast file are non-negative and
\* non-decreasing in file order, however the clock behaves.
C6_TimestampsMonotone ==
    \A i \in 2..Len(cast) :
        /\ cast[i].t >= 0
        /\ i > 2 => cast[i - 1].t <= cast[i].t

\* C7: whenever the process has ended after setup_terminal switched the
\* controlling terminal to raw mode, the terminal has the attributes saved at
\* entry.
C7_TerminalRestored ==
    (pc \in {"exited", "killed"} /\ raw_was_set) => tty_attrs = original_tty_settings

\* C8: the bytes the pty master accepted are exactly the bytes read from stdin,
\* in order, and the 'i' payloads decode to what was delivered to the child.
C8_InputForwarded ==
    /\ child_in = StdinConsumed
    /\ CastPayload("i") = Decode(child_in)

-----------------------------------------------------------------------------
(* AsciinemaPlayer.  Strings are sequences of code points; timestamps and  *)
(* delays are in ms.                                                       *)

nonPlayVars == <<recVars, castVars, clockVars, ioVars, loopVars, broadcast_queue,
                 hubVars, loadVars>>

SliceMs == 100          \* min(0.1, remaining_delay)
PauseSleepMs == 100     \* wait_while_paused: time.sleep(0.1)
NoticeSleepMs == 500    \* time.sleep(0.5) while the skip message is shown

\* 'activity_resumed_after'
ActivityResumedAfter ==
    <<97, 99, 116, 105, 118, 105, 116, 121, 95, 114, 101, 115, 117, 109, 101, 100, 95, 97, 102, 116, 101, 114>>

\* pat in data
Contains(data, pat) ==
    \E i \in 1..(Len(data) - Len(pat) + 1) : SubSeq(data, i, i + Len(pat) - 1) = pat

\* event_type == 'i' or (event_type == 'm' and 'activity_resumed_after' in data)
IsAnchor(e) ==
    e.kind = "i" \/ (e.kind = "m" /\ Contains(e.data, ActivityResumedAfter))

\* the first anchor at or after index from, 0 if there is none
NextAnchor(from) ==
    LET later == {i \in from..Len(events) : IsAnchor(events[i])}
    IN  IF later = {} THEN 0 ELSE CHOOSE i \in later : \A j \in later : i <= j

Keys == {"space", "tab", "ctrlc", "other"}

\* what select and sys.stdin.read(1) may give at one call
KeyChoices == IF keys_left > 0 THEN Keys \cup {"none"} ELSE {"none"}

Title(text) == [what |-> "title", text |-> text]

HandleInputCtrlCIgnored(key) ==
    [paused |-> IF key = "space" THEN ~paused ELSE paused,
     skip_to_next |-> IF key = "tab" THEN TRUE ELSE skip_to_next,
     title |-> <<>>,
     interrupt |-> FALSE]

HandleInputAnyKeyResumes(key) ==
    [paused |-> IF key # "none" THEN ~paused ELSE paused,
     skip_to_next |-> IF key = "tab" THEN TRUE ELSE skip_to_next,
     title |-> <<>>,
     interrupt |-> key = "ctrlc"]
HandleInputEchoesOther(key) ==
    [paused |-> IF key = "space" THEN ~paused ELSE paused,
     skip_to_next |-> IF key = "tab" THEN TRUE ELSE skip_to_next,
     title |-> IF key = "other" THEN <<[what |-> "data", text |-> <<120>>]>> ELSE <<>>,
     interrupt |-> key = "ctrlc"]
HandleInputTabResumes(key) ==
    [paused |-> IF key = "space" THEN ~paused
                ELSE IF key = "tab" THEN FALSE ELSE paused,
     skip_to_next |-> IF key = "tab" THEN TRUE ELSE skip_to_next,
     title |-> IF key = "space"
               THEN (IF ~paused THEN <<Title("PAUSED")>> ELSE <<Title("Playing")>>)
               ELSE IF key = "tab" /\ ~paused THEN <<Title("Skipping to next")>>
               ELSE <<>>,
     interrupt |-> key = "ctrlc"]

\* handle_input_during_playback with the given key waiting (or none): the new
\* paused, skip_to_next, the title it sets and whether it raises
\* KeyboardInterrupt
HandleInput(key) ==
    [paused |-> IF key = "space" THEN ~paused ELSE paused,
     skip_to_next |-> IF key = "tab" THEN TRUE ELSE skip_to_next,
     title |-> IF key = "space"
               THEN (IF ~paused THEN <<Title("PAUSED")>> ELSE <<Title("Playing")>>)
               ELSE IF key = "tab" /\ ~paused THEN <<Title("Skipping to next")>>
               ELSE <<>>,
     interrupt |-> key = "ctrlc"]

\* the history variables after a call of handle_input_during_playback; pending
\* is the index of the first event not yet dispatched
KeyHistory(key, pending) ==
    /\ keys_left' = IF key = "none" THEN keys_left ELSE keys_left - 1
    /\ key_seen' = (key_seen \/ key # "none")
    /\ skip_anchor' = IF key = "tab" THEN NextAnchor(pending) ELSE skip_anchor
    /\ space_since_tab' = IF key = "tab" THEN FALSE
                          ELSE IF key = "space" THEN TRUE
                          ELSE space_since_tab
    /\ last_key' = key

\* print("\033[2J\033[H", end='')
ClearScreen == <<27, 91, 50, 74, 27, 91, 72>>

\* the screen is cleared, then "Playing: " and the rest of the banner (the
\* file name and the settings are left out)
BannerText == ClearScreen \o <<80, 108, 97, 121, 105, 110, 103, 58, 32>>

\* print("\n\nPlayback interrupted")
InterruptedText == <<10, 10, 80, 108, 97, 121, 98, 97, 99, 107, 32, 105, 110, 116, 101, 114, 114, 117, 112, 116, 101, 100, 10>>

\* print(f"\n\nPlayback finished: ...") up to the file name
FinishedText == <<10, 10, 80, 108, 97, 121, 98, 97, 99, 107, 32, 102, 105, 110, 105, 115, 104, 101, 100, 58, 32>>

\* play_in_terminal up to wait_for_keypress: setup_terminal, title, banner
PlayBegin ==
    /\ ppc = "start"
    /\ play_tty' = "raw"
    /\ play_err' = Append(play_err, Title("Ready to start"))
    /\ play_out' = Append(play_out, [what |-> "banner", text |-> BannerText])
    /\ ppc' = "wait_key"
    /\ UNCHANGED <<nonPlayVars, last_key, outcome, events, speed, max_delay, paused, skip_to_next,
                   event_index, last_timestamp, remaining_delay, keys_left, waited,
                   longest_sleep, key_seen, emitted, skip_anchor, space_since_tab>>

\* wait_for_keypress returns; the screen is cleared, play_events starts
PlayKeypress ==
    /\ ppc = "wait_key"
    /\ play_out' = Append(play_out, [what |-> "clear", text |-> ClearScreen])
    /\ play_err' = Append(play_err, Title("Playing"))
    /\ event_index' = 1
    /\ last_timestamp' = 0
    /\ ppc' = "iter"
    /\ UNCHANGED <<nonPlayVars, last_key, outcome, events, speed, max_delay, paused, skip_to_next,
                   remaining_delay, play_tty, keys_left, waited, longest_sleep,
                   key_seen, emitted, skip_anchor, space_since_tab>>

\* top of the for loop: if self.paused: self.wait_while_paused()
IterTop ==
    /\ ppc = "iter"
    /\ ppc' = IF paused THEN "pause_top" ELSE "skip_check"
    /\ UNCHANGED <<nonPlayVars, last_key, outcome, events, speed, max_delay, paused, skip_to_next,
                   event_index, last_timestamp, remaining_delay, play_out, play_err,
                   play_tty, keys_left, waited, longest_sleep, key_seen, emitted,
                   skip_anchor, space_since_tab>>

\* where wait_while_paused returns to
AfterPause(skipping) ==
    CASE ppc = "pause_top"    -> "skip_check"
      [] ppc = "pause_anchor" -> "dispatch"
      [] ppc = "pause_delay"  -> IF remaining_delay > 0 /\ ~skipping
                                 THEN "sleeping" ELSE "dispatch"

\* one round of wait_while_paused: time.sleep(0.1), handle_input_during_playback
PauseSlice ==
    /\ ppc \in {"pause_top", "pause_anchor", "pause_delay"}
    /\ \E key \in KeyChoices :
         LET h == HandleInput(key)
         IN  /\ paused' = h.paused
             /\ skip_to_next' = h.skip_to_next
             /\ play_err' = play_err \o h.title
             /\ KeyHistory(key, event_index)
             /\ ppc' = IF h.interrupt THEN "interrupted"
                       ELSE IF h.paused THEN ppc
                       ELSE AfterPause(h.skip_to_next)
    /\ longest_sleep' = Max(longest_sleep, PauseSleepMs)
    /\ UNCHANGED <<nonPlayVars, outcome, events, speed, max_delay, event_index,
                   last_timestamp, remaining_delay, play_out, play_tty, emitted,
                   waited>>

\* (timestamp - last_timestamp) / self.speed, in ms
NominalDelay(i, last) == (events[i].t - last) \div speed

\* the sleep that shows the skip message when the delay is capped
NoticeSleep(delay) == IF delay > max_delay THEN NoticeSleepMs ELSE 0

\* the skip test and the start of the delay of the current event
SkipOrDelay ==
    /\ ppc = "skip_check"
    /\ LET e == events[event_index]
           delay == NominalDelay(event_index, last_timestamp)
       IN  IF skip_to_next
           THEN IF IsAnchor(e)
                THEN /\ skip_to_next' = FALSE
                     /\ paused' = TRUE
                     /\ play_err' = Append(play_err, Title("PAUSED at anchor"))
                     /\ ppc' = "pause_anchor"
                     /\ UNCHANGED <<remaining_delay, waited, longest_sleep>>
                ELSE /\ ppc' = "dispatch"
                     /\ UNCHANGED <<skip_to_next, paused, play_err, remaining_delay,
                                    waited, longest_sleep>>
           ELSE IF delay > 0
                THEN /\ remaining_delay' = Min(delay, max_delay)
                     /\ waited' = waited + NoticeSleep(delay)
                     /\ longest_sleep' = Max(longest_sleep, NoticeSleep(delay))
                     /\ play_err' = IF delay > max_delay
                                    THEN play_err \o <<Title("Skipping pause"),
                                                       Title("Playing")>>
                                    ELSE play_err
                     /\ ppc' = "sleeping"
                     /\ UNCHANGED <<skip_to_next, paused>>
                ELSE /\ ppc' = "dispatch"
                     /\ UNCHANGED <<skip_to_next, paused, play_err, remaining_delay,
                                    waited, longest_sleep>>
    /\ UNCHANGED <<nonPlayVars, last_key, outcome, events, speed, max_delay, event_index,
                   last_timestamp, play_out, play_tty, keys_left, key_seen, emitted,
                   skip_anchor, space_since_tab>>

\* one round of the sleep loop: time.sleep(min(0.1, remaining_delay)),
\* handle_input_during_playback, if self.paused: self.wait_while_paused()
SleepSlice ==
    /\ ppc = "sleeping"
    /\ LET sleep_time == Min(SliceMs, remaining_delay)
       IN  /\ remaining_delay' = remaining_delay - sleep_time
           /\ waited' = waited + sleep_time
           /\ longest_sleep' = Max(longest_sleep, sleep_time)
           /\ \E key \in KeyChoices :
                LET h == HandleInput(key)
                IN  /\ paused' = h.paused
                    /\ skip_to_next' = h.skip_to_next
                    /\ play_err' = play_err \o h.title
                    /\ KeyHistory(key, event_index)
                    /\ ppc' = IF h.interrupt THEN "interrupted"
                              ELSE IF h.paused THEN "pause_delay"
                              ELSE IF remaining_delay - sleep_time > 0
                                      /\ ~h.skip_to_next
                              THEN "sleeping"
                              ELSE "dispatch"
    /\ UNCHANGED <<nonPlayVars, outcome, events, speed, max_delay, event_index,
                   last_timestamp, play_out, play_tty, emitted>>


IsDigits(str) == str # <<>> /\ \A i \in 1..Len(str) : str[i] \in 48..57

RECURSIVE ParseInt(_)
\* int(str) for a string of decimal digits
ParseInt(str) ==
    IF str = <<>> THEN 0
    ELSE 10 * ParseInt(SubSeq(str, 1, Len(str) - 1)) + (str[Len(str)] - 48)

\* the 'r' arm: if ',' in data: height, width = map(int, data.split(','));
\* the escape sequence ESC [ 8 ; height ; width t, or nothing on ValueError
ResizeEscape(data) ==
    LET commas == {i \in 1..Len(data) : data[i] = 44}
    IN  IF Cardinality(commas) # 1 THEN <<>>
        ELSE LET c == CHOOSE i \in commas : TRUE
                 left == SubSeq(data, 1, c - 1)
                 right == SubSeq(data, c + 1, Len(data))
             IN  IF IsDigits(left) /\ IsDigits(right)
                 THEN <<[what |-> "resize",
                         text |-> <<27, 91, 56, 59>> \o DecimalStr(ParseInt(left))
                                  \o <<59>> \o DecimalStr(ParseInt(right))
                                  \o <<116>>]>>
                 ELSE <<>>
StdoutOfEchoesInput(e) ==
    CASE e.kind \in {"o", "i"} -> <<[what |-> "data", text |-> e.data]>>
      [] e.kind = "r" -> ResizeEscape(e.data)
      [] OTHER -> <<>>

\* what the dispatch of event e appends to stdout
StdoutOf(e) ==
    CASE e.kind = "o" -> <<[what |-> "data", text |-> e.data]>>
      [] e.kind = "r" -> ResizeEscape(e.data)
      [] OTHER -> <<>>

\* what the dispatch of event e appends to stderr
StderrOf(e) ==
    CASE e.kind = "e" -> <<[what |-> "data", text |-> e.data]>>
      [] e.kind \in {"o", "r", "i", "m"} -> <<>>
      [] OTHER -> <<[what |-> "warning", text |-> <<>>]>>

\* the per-kind arm of the current event, last_timestamp = timestamp, and the
\* handle_input_during_playback that ends the iteration
Dispatch ==
    /\ ppc = "dispatch"
    /\ LET e == events[event_index]
       IN  /\ play_out' = play_out \o StdoutOf(e)
           /\ last_timestamp' = e.t
           /\ emitted' = Append(emitted, event_index)
           /\ waited' = 0
           /\ \E key \in KeyChoices :
                LET h == HandleInput(key)
                IN  /\ paused' = h.paused
                    /\ skip_to_next' = h.skip_to_next
                    /\ play_err' = play_err \o StderrOf(e) \o h.title
                    /\ KeyHistory(key, event_index + 1)
                    /\ ppc' = IF h.interrupt THEN "interrupted"
                              ELSE IF event_index = Len(events) THEN "finally"
                              ELSE "iter"
                    /\ event_index' = IF h.interrupt \/ event_index = Len(events)
                                      THEN event_index ELSE event_index + 1
    /\ UNCHANGED <<nonPlayVars, outcome, events, speed, max_delay, remaining_delay, play_tty,
                   longest_sleep>>

\* except KeyboardInterrupt in play_in_terminal
PlayInterrupted ==
    /\ ppc = "interrupted"
    /\ play_err' = Append(play_err, Title("Interrupted"))
    /\ play_out' = Append(play_out, [what |-> "interrupted", text |-> InterruptedText])
    /\ ppc' = "finally"
    /\ outcome' = "interrupted"
    /\ UNCHANGED <<nonPlayVars, last_key, events, speed, max_delay, paused, skip_to_next,
                   event_index, last_timestamp, remaining_delay, play_tty, keys_left,
                   waited, longest_sleep, key_seen, emitted, skip_anchor,
                   space_since_tab>>

\* finally: restore_terminal, title, the closing print
PlayFinally ==
    /\ ppc = "finally"
    /\ play_tty' = "cooked"
    /\ play_err' = Append(play_err, Title("Finished"))
    /\ play_out' = Append(play_out, [what |-> "finished", text |-> FinishedText])
    /\ ppc' = "done"
    /\ outcome' = IF outcome = "none" THEN "finished" ELSE outcome
    /\ UNCHANGED <<nonPlayVars, last_key, events, speed, max_delay, paused, skip_to_next,
                   event_index, last_timestamp, remaining_delay, keys_left, waited,
                   longest_sleep, key_seen, emitted, skip_anchor, space_since_tab>>

\* sys.stdout.write or sys.stderr.write of the per-kind arm raises OSError:
\* the exception leaves play_events, no except clause of play_in_terminal
\* matches it, its finally clause runs
PlayWriteFails ==
    /\ ppc = "dispatch"
    /\ StdoutOf(events[event_index]) \o StderrOf(events[event_index]) # <<>>
    /\ ppc' = "finally"
    /\ outcome' = "error"
    /\ UNCHANGED <<nonPlayVars, last_key, events, speed, max_delay, paused, skip_to_next,
                   event_index, last_timestamp, remaining_delay, play_out, play_err,
                   play_tty, keys_left, waited, longest_sleep, key_seen, emitted,
                   skip_anchor, space_since_tab>>

\* SIGTERM (or SIGHUP) while play_in_terminal runs: the module installs no
\* handler, the process ends at once and no finally clause runs
PlaySigTerm ==
    /\ ppc \in {"wait_key", "iter", "pause_top", "pause_anchor", "pause_delay",
                 "skip_check", "sleeping", "dispatch", "interrupted", "finally"}
    /\ ppc' = "killed"
    /\ outcome' = "killed"
    /\ UNCHANGED <<nonPlayVars, last_key, events, speed, max_delay, paused, skip_to_next,
                   event_index, last_timestamp, remaining_delay, play_out, play_err,
                   play_tty, keys_left, waited, longest_sleep, key_seen, emitted,
                   skip_anchor, space_since_tab>>

-----------------------------------------------------------------------------
(* SpecPlay: the playback of a loaded cast.                                *)

Ev(t, kind, data) == [t |-> t, kind |-> kind, data |-> data]

\* two outputs, a long gap, an activity marker, an output
CastWithMarker ==
    <<Ev(0, "o", <<97>>), Ev(100, "o", <<98>>),
      Ev(8200, "m", ActivityResumedAfter \o <<95, 56, 115>>),
      Ev(8300, "o", <<99>>)>>

\* every kind, an unknown kind among them
CastAllKinds ==
    <<Ev(0, "o", <<97>>), Ev(100, "i", <<120>>), Ev(200, "e", <<69>>),
      Ev(200, "r", <<52, 48, 44, 49, 50, 48>>), Ev(300, "z", <<63>>), Ev(400, "o", <<98>>)>>

\* output only
CastOnlyOutput ==
    <<Ev(0, "o", <<97, 98>>), Ev(100, "o", <<99>>), Ev(100, "o", <<97>>)>>

\* an output, a marker that mentions activity_resumed_after in the middle of
\* its payload ("x" before it), an output
CastWithMention ==
    <<Ev(0, "o", <<97>>),
      Ev(100, "m", <<120>> \o ActivityResumedAfter \o <<95, 53, 115>>),
      Ev(200, "o", <<98>>)>>

Casts == {CastWithMarker, CastAllKinds, CastOnlyOutput, CastWithMention}

Speeds == {1, 2}

MaxDelays == {300}

InitPlay ==
    /\ wall = 0
    /\ monitor_enabled = FALSE
    /\ stdin_isatty = TRUE
    /\ RecorderConstructed
    /\ MonitorConstructed
    /\ LoaderIdle
    /\ events \in Casts
    /\ speed \in Speeds
    /\ max_delay \in MaxDelays
    /\ paused = FALSE
    /\ skip_to_next = FALSE
    /\ ppc = "start"
    /\ event_index = 0
    /\ last_timestamp = 0
    /\ remaining_delay = 0
    /\ play_out = <<>>
    /\ play_err = <<>>
    /\ play_tty = "cooked"
    /\ keys_left = MaxKeys
    /\ waited = 0
    /\ longest_sleep = 0
    /\ key_seen = FALSE
    /\ emitted = <<>>
    /\ skip_anchor = 0
    /\ space_since_tab = FALSE
    /\ last_key = "none"
    /\ outcome = "none"

NextPlay ==
    \/ PlayBegin
    \/ PlayKeypress
    \/ IterTop
    \/ PauseSlice
    \/ SkipOrDelay
    \/ SleepSlice
    \/ Dispatch
    \/ PlayInterrupted
    \/ PlayFinally
    \/ PlayWriteFails
    \/ PlaySigTerm

SpecPlay == InitPlay /\ [][NextPlay]_vars

\* C9: once Tab has been consumed, and until Space is consumed after it, no 'o'
\* or 'e' event that lies after the next anchor (the first 'i' or
\* activity_resumed_after event not yet dispatched when Tab was consumed) has
\* been dispatched: playback pauses at that anchor.
C9_SkipStopsAtAnchor ==
    (skip_anchor > 0 /\ ~space_since_tab) =>
        \A k \in 1..Len(emitted) :
            emitted[k] > skip_anchor => events[emitted[k]].kind \notin {"o", "e"}

\* C10: with no key pressed, when an event is about to be dispatched the player
\* has slept at most min(nominal delay, max_delay) plus one slice of 100 ms
\* since the dispatch before it, and no single sleep was longer than 100 ms.
C10_DelayBound ==
    ~key_seen =>
        /\ longest_sleep <= SliceMs
        /\ ppc = "dispatch" =>
              waited <= Min(Max(0, NominalDelay(event_index, last_timestamp)),
                            max_delay) + SliceMs

\* an event's payload or resize escape, as opposed to the player's own text
IsEventChunk(c) == c.what \in {"data", "resize"}

EventChunks(s) == SelectSeq(s, IsEventChunk)

\* C11: in a step taken while paused is set, no event payload or resize escape
\* is written and the position in the cast does not move; paused is set or
\* cleared by a key only when that key is Space (the other way it gets set is
\* the automatic pause at an anchor), so playback advances again only after a
\* further Space.
C11_PausedEmitsNothing ==
    [][/\ paused => /\ EventChunks(play_out') = EventChunks(play_out)
                    /\ EventChunks(play_err') = EventChunks(play_err)
                    /\ emitted' = emitted
                    /\ event_index' = event_index
       /\ (paused /\ ~paused') => last_key' = "space"
       /\ (~paused /\ paused') => (last_key' = "space" \/ ppc' = "pause_anchor")]_vars

\* a complete replay that was paused by Space after its first event and
\* resumed by Space
C11_Witness ==
    /\ outcome = "finished"
    /\ Len(emitted) = Len(events)
    /\ \E i, j \in 1..Len(play_err) :
         /\ i < j
         /\ play_err[i] = Title("PAUSED")
         /\ play_err[j] = Title("Playing")
         /\ \E k \in 1..i : play_err[k] = Title("Playing")

\* everything the player wrote to stdout, as one string
StdoutBytes == Concat([i \in 1..Len(play_out) |-> play_out[i].text])

\* the payloads of the cast in file order, as one string
RecordedPayloads == Concat([i \in 1..Len(events) |-> events[i].data])

\* C12: after a complete replay of a cast that holds only 'o' events, stdout
\* holds exactly the concatenation of the recorded payloads in file order.
C12_ReplayRoundTrip ==
    (outcome = "finished" /\ \A i \in 1..Len(events) : events[i].kind = "o") =>
        StdoutBytes = RecordedPayloads

\* C13: when the process of a monitored recording has exited, the hub was
\* torn down (running is False) and every viewer still in the registry was
\* sent a session_event message.
C13_SessionEndedSent ==
    (pc = "exited" /\ monitor_enabled /\ event_loop) =>
        /\ ~running
        /\ \A v \in clients :
             \E k \in 1..Len(inbox[v]) : inbox[v][k].type = "session_event"

\* the terminal_sync of viewer v was written to its connection
SyncDelivered(v) == SyncsOf(v) # <<>>

\* a send to viewer v raised, or its handler saw the connection end
ObservedFailed(v) == v \in send_failed \/ conn[v] = "gone"

\* C14: in every state, a viewer is in the registry if and only if its sync
\* was delivered and no send to it has been observed to fail.
C14_RegistryIffHealthy ==
    \A v \in Viewers : v \in clients <=> (SyncDelivered(v) /\ ~ObservedFailed(v))

\* C14, amended: a viewer is in the registry if and only if its sync was
\* delivered, its handler has not ended, and no send to it has failed in a
\* broadcast that is over: a viewer whose send failed stays in the registry
\* until the end of the broadcast in which the send failed.
C14_RegistryAmended ==
    \A v \in Viewers :
        v \in clients <=> /\ SyncDelivered(v)
                          /\ conn[v] # "gone"
                          /\ v \in send_failed => v \in drain.disconnected

\* a broadcast is over in which the send to one viewer failed: that viewer is
\* out of the registry before its handler has ended, another one is still in
C14_Witness ==
    /\ drain.pc = "idle"
    /\ \E v, w \in Viewers :
         /\ v \in send_failed /\ conn[v] = "closed" /\ v \notin clients
         /\ w \in clients

\* the messages of viewer v hold m
Received(v, m) == \E k \in 1..Len(inbox[v]) : inbox[v][k] = m

C17_SyncFirstAndOnce ==
    \A v \in Viewers :
        /\ conn[v] # "none" => inbox[v] # <<>>
        /\ inbox[v] # <<>> => /\ inbox[v][1].type = "terminal_sync"
                              /\ Len(SyncsOf(v)) = 1

\* a viewer that connected after the drain task had taken events has its sync
\* and a terminal_data after it, while the other viewer holds more messages
C17_Witness ==
    \E v, w \in Viewers :
        /\ attached_at[v] > 0
        /\ Len(inbox[v]) >= 2
        /\ Len(inbox[w]) > Len(inbox[v])

\* C18: however playback has ended once raw mode was entered (all events
\* played, Ctrl-C, an error while writing, a terminating signal), the
\* controlling terminal has the attributes it had at entry.
C18_PlaybackRestoresTerminal ==
    ppc \in {"done", "killed"} => play_tty = "cooked"

\* C19: once Ctrl-C has been consumed during playback, in whatever state
\* (playing, delaying, paused, skipping), the player is on its way out: no
\* event payload or resize escape is written any more, and when
\* play_in_terminal is over it has ended as interrupted, not as an error.
C19_CtrlCAborts ==
    /\ [](last_key = "ctrlc" =>
             /\ ppc \in {"interrupted", "finally", "done", "killed"}
             /\ ppc = "done" => outcome = "interrupted")
    /\ [][last_key = "ctrlc" =>
             /\ EventChunks(play_out') = EventChunks(play_out)
             /\ EventChunks(play_err') = EventChunks(play_err)
             /\ emitted' = emitted]_vars

\* playback ended as interrupted by a Ctrl-C consumed while it was paused,
\* with events of the cast left unplayed
C19_Witness ==
    /\ ppc = "done" /\ outcome = "interrupted"
    /\ last_key = "ctrlc"
    /\ paused
    /\ Len(emitted) < Len(events)
    /\ play_tty = "cooked"

-----------------------------------------------------------------------------
(* load_cast_file.  A line of the file is what line.strip() and json.loads *)
(* make of it: blank, not JSON, or a JSON value of some shape: a number,   *)
(* null, a string (its items are its characters), an object (its items     *)
(* stand for its keys) or an array.  An item is a number (time stamps in   *)
(* ms), a string or null.                                                  *)

MaxLines == 3

Num(n) == [j |-> "num", v |-> <<n>>]
Str(cs) == [j |-> "str", v |-> cs]
Null == [j |-> "null", v |-> <<>>]

Blank == [shape |-> "blank", items |-> <<>>]
NotJson == [shape |-> "notjson", items |-> <<>>]
JsonNumber == [shape |-> "number", items |-> <<>>]
JsonArray(items) == [shape |-> "array", items |-> items]
JsonString(cs) == [shape |-> "string", items |-> [i \in 1..Len(cs) |-> Str(<<cs[i]>>)]]
JsonObject(n) == [shape |-> "object", items |-> [i \in 1..n |-> Null]]

\* len(event): TypeError for a number and for null
JsonLen(line) ==
    [ok |-> line.shape \in {"array", "string", "object"}, n |-> Len(line.items)]

\* event[i - 1]: an item of an array, a character of a string, KeyError for
\* an object (its keys are strings)
JsonIndex(line, i) ==
    [ok |-> line.shape \in {"array", "string"}, value |-> line.items[i]]

\* float(timestamp): a number; a string of digits, in seconds; ValueError for
\* another string, TypeError for null
FloatOf(item) ==
    [ok |-> item.j = "num" \/ (item.j = "str" /\ IsDigits(item.v)),
     ms |-> IF item.j = "num" THEN item.v[1]
            ELSE IF item.j = "str" /\ IsDigits(item.v) THEN 1000 * ParseInt(item.v)
            ELSE 0]

\* str(value), for a string, a number and null
StrOf(item) ==
    IF item.j = "str" THEN item.v
    ELSE IF item.j = "num" THEN DecimalStr(item.v[1])
    ELSE <<78, 111, 110, 101>>

\* the event kind as the player's dispatch tells it apart
KindName(cs) ==
    CASE cs = <<111>> -> "o"
      [] cs = <<101>> -> "e"
      [] cs = <<105>> -> "i"
      [] cs = <<109>> -> "m"
      [] cs = <<114>> -> "r"
      [] OTHER -> "z"

\* (float(timestamp), str(event_type), str(data))
EventOf(line) ==
    Ev(FloatOf(JsonIndex(line, 1).value).ms,
       KindName(StrOf(JsonIndex(line, 2).value)),
       StrOf(JsonIndex(line, 3).value))

\* one pass of the loop over the lines: what becomes of the line
ParseLine(line) ==
    IF line.shape = "blank" THEN "skip"
    ELSE IF line.shape = "notjson" THEN "warn"
    ELSE IF ~JsonLen(line).ok THEN "raise"
    ELSE IF JsonLen(line).n < 3 THEN "warn"
    ELSE IF ~JsonIndex(line, 1).ok THEN "raise"
    ELSE IF ~FloatOf(JsonIndex(line, 1).value).ok THEN "raise"
    ELSE "event"

\* lines[0]: no line at all, a blank line, text that is not JSON, JSON that is
\* not an object, an object of version 1, an object of version 2
Headers == {"absent", "blank", "notjson", "notobject", "v1", "v2"}

\* the header checks with every object accepted, whatever its version
HeaderAcceptedAnyObject(header) == header \in {"v1", "v2"}

\* lines is not empty, json.loads(lines[0].strip()) returns, header.get exists
\* and header.get('version') == 2
HeaderAccepted(header) == header = "v2"

\* the header line parses and its version is 2
LoadHeaderOk ==
    /\ lpc = "open"
    /\ HeaderAccepted(file_header)
    /\ lpc' = "lines"
    /\ line_num' = 1
    /\ UNCHANGED <<recVars, castVars, clockVars, ioVars, loopVars, broadcast_queue,
                   hubVars, events, playStateVars, file_header, file_lines,
                   load_warnings>>

\* an empty file, a header that is blank or not JSON (JSONDecodeError), not an
\* object (header.get raises, except Exception), or of another version:
\* return False
LoadHeaderFails ==
    /\ lpc = "open"
    /\ ~HeaderAccepted(file_header)
    /\ lpc' = "failed"
    /\ UNCHANGED <<recVars, castVars, clockVars, ioVars, loopVars, broadcast_queue,
                   hubVars, events, playStateVars, file_header, file_lines,
                   line_num, load_warnings>>

\* one line of lines[1:]; an exception other than JSONDecodeError leaves the
\* loop and is caught by except Exception: return False
LoadLine ==
    /\ lpc = "lines"
    /\ line_num <= Len(file_lines)
    /\ LET line == file_lines[line_num]
           what == ParseLine(line)
       IN  /\ events' = IF what = "event" THEN Append(events, EventOf(line))
                        ELSE events
           /\ load_warnings' = IF what = "warn"
                               THEN Append(load_warnings, line_num + 1)
                               ELSE load_warnings
           /\ lpc' = IF what = "raise" THEN "failed" ELSE lpc
           /\ line_num' = IF what = "raise" THEN line_num ELSE line_num + 1
    /\ UNCHANGED <<recVars, castVars, clockVars, ioVars, loopVars, broadcast_queue,
                   hubVars, playStateVars, file_header, file_lines>>

\* the loop is over: "Loaded n events", return True
LoadDone ==
    /\ lpc = "lines"
    /\ line_num > Len(file_lines)
    /\ lpc' = "ok"
    /\ UNCHANGED <<recVars, castVars, clockVars, ioVars, loopVars, broadcast_queue,
                   hubVars, events, playStateVars, file_header, file_lines,
                   line_num, load_warnings>>

\* main: load_cast_file returned False, sys.exit(1)
MainLoadFailed ==
    /\ lpc = "failed"
    /\ lpc' = "exit1"
    /\ UNCHANGED <<recVars, castVars, clockVars, ioVars, loopVars, broadcast_queue,
                   hubVars, events, playStateVars, file_header, file_lines,
                   line_num, load_warnings>>

\* main: load_cast_file returned True, play_in_terminal is entered
MainPlay ==
    /\ lpc = "ok"
    /\ lpc' = "playing"
    /\ ppc' = "start"
    /\ UNCHANGED <<recVars, castVars, clockVars, ioVars, loopVars, broadcast_queue,
                   hubVars, events, speed, max_delay, paused, skip_to_next,
                   event_index, last_timestamp, remaining_delay, play_out,
                   play_err, play_tty, keys_left, waited, longest_sleep, key_seen,
                   emitted, skip_anchor, space_since_tab, last_key, outcome,
                   file_header, file_lines, line_num, load_warnings>>

\* a header object on a line of its own: version, width, height, timestamp
HeaderObject == [shape |-> "object", items |-> [i \in 1..4 |-> Null]]

\* the lines a cast file is made of here
LineChoices ==
    {Blank, NotJson, JsonNumber, JsonObject(1), HeaderObject,
     JsonString(<<97, 98, 99>>),
     JsonArray(<<Num(100), Str(<<111>>)>>),
     JsonArray(<<Num(100), Str(<<111>>), Str(<<97>>)>>),
     JsonArray(<<Num(200), Str(<<101>>), Str(<<98>>)>>),
     JsonArray(<<Str(<<120>>), Str(<<111>>), Str(<<97>>)>>)}

InitLoad ==
    /\ wall = 0
    /\ monitor_enabled = FALSE
    /\ stdin_isatty = TRUE
    /\ RecorderConstructed
    /\ MonitorConstructed
    /\ PlayerAbsent
    /\ file_header \in Headers
    /\ file_lines \in UNION {[1..k -> LineChoices] : k \in 0..MaxLines}
    /\ lpc = "open"
    /\ line_num = 0
    /\ load_warnings = <<>>

NextLoad ==
    \/ LoadHeaderOk
    \/ LoadHeaderFails
    \/ LoadLine
    \/ LoadDone
    \/ MainLoadFailed
    \/ MainPlay

SpecLoad == InitLoad /\ [][NextLoad]_vars

\* an event line as the format has it: an array of at least three items
\* whose first item is a number
WellFormed(line) ==
    /\ line.shape = "array"
    /\ Len(line.items) >= 3
    /\ line.items[1].j = "num"

\* a line that is neither blank nor well-formed
Malformed(line) == line.shape # "blank" /\ ~WellFormed(line)

\* C20: when load_cast_file is over for a file whose header is valid, it has
\* succeeded, the events loaded are the well-formed event lines in file
\* order, and a warning was given for every malformed line.
C20_MalformedLinesSkipped ==
    (file_header = "v2" /\ lpc \in {"ok", "failed"}) =>
        /\ lpc = "ok"
        /\ LET good == SelectSeq(file_lines, WellFormed)
           IN  events = [i \in 1..Len(good) |-> EventOf(good[i])]
        /\ Len(load_warnings) = Len(SelectSeq(file_lines, Malformed))

\* C21: a cast whose header line is not a JSON object of version 2 is never
\* loaded, whatever its event lines: no event is taken from it, load_cast_file
\* does not return True, and playback is not entered; once load_cast_file is
\* over it has returned False or the process has exited with code 1.
C21_BadHeaderIsFatal ==
    file_header \in Headers \ {"v2"} =>
        /\ lpc \in {"open", "failed", "exit1"}
        /\ events = <<>>
        /\ ppc = "none"

\* C21 witness: an object header of version 1, or a header that is JSON but no
\* object, followed by a well-formed event line, and the process has exited
\* with code 1.
C21_Witness ==
    /\ file_header \in {"v1", "notobject"}
    /\ Len(file_lines) >= 1
    /\ WellFormed(file_lines[1])
    /\ lpc = "exit1"

\* the events load_cast_file makes of these lines when all of them are blank
\* or well-formed
EventsOf(lines) ==
    LET good == SelectSeq(lines, WellFormed)
    IN  [i \in 1..Len(good) |-> EventOf(good[i])]

\* C22: blank lines are ignored wherever they are: a file made of a blank
\* line, then a valid header, then blank or well-formed event lines, loads
\* successfully to the events of those lines, as the file without the blank
\* first line does.
C22_BlankLinesIgnored ==
    (/\ lpc \in {"ok", "failed", "exit1", "playing"}
     /\ file_header \in {"blank", "v2"}
     /\ \A i \in 1..Len(file_lines) :
            \/ file_lines[i] = Blank
            \/ WellFormed(file_lines[i])
            \/ file_header = "blank" /\ i = 1 /\ file_lines[i] = HeaderObject)
    /\ (file_header = "blank" => Len(file_lines) >= 1 /\ file_lines[1] = HeaderObject)
        => /\ lpc \in {"ok", "playing"}
           /\ events = EventsOf(file_lines)

\* C23: the step in which the recorder forwards a SIGINT to the child leaves
\* it in the I/O loop and loses nothing: the bytes it took off master_fd,
\* stderr_fd and stdin_fd are the bytes it added to the 'o', 'e' and 'i'
\* payloads of the cast file and wrote to stdout, to stderr and to the child.
C23_SigIntLosesNothing ==
    [][(~child_sigint /\ child_sigint') =>
         /\ InLoop'
         /\ Len(master_buf) - Len(master_buf')
              = Len(CastPayload("o")') - Len(CastPayload("o"))
         /\ Len(master_buf) - Len(master_buf') = Len(term_out') - Len(term_out)
         /\ Len(stderr_buf) - Len(stderr_buf')
              = Len(CastPayload("e")') - Len(CastPayload("e"))
         /\ Len(stderr_buf) - Len(stderr_buf') = Len(term_err') - Len(term_err)
         /\ Len(stdin_buf) - Len(stdin_buf')
              = Len(CastPayload("i")') - Len(CastPayload("i"))
         /\ Len(stdin_buf) - Len(stdin_buf') = Len(child_in') - Len(child_in)]_vars

CountResize(c) == Cardinality({i \in 2..Len(c) : c[i].kind = "r"})

\* C25: once check_terminal_state_changes has run twice after the controlling
\* terminal was resized, the cast file has an 'r' event whose payload is the
\* new size of the controlling terminal as rows,cols.
C25_OuterResizeRecorded ==
    (tty_winsize # <<24, 80>> /\ polls_since_resize >= 2) =>
        \E i \in 2..Len(cast) :
            /\ cast[i].kind = "r"
            /\ cast[i].data = ResizePayload(tty_winsize[1], tty_winsize[2])

\* C26: a step appends an 'r' event exactly when it is a run of
\* check_terminal_state_changes that reads a pty window size different from
\* the last observed one, the first observation excluded; the event is the
\* last line, its payload is the rows,cols just read in decimal ("40,120" for
\* 40 rows of 120 columns), and every run of the check leaves the size it
\* read as the last observed size.
C26_ResizeEventExact ==
    [][LET checked == pc = "io_check" /\ pc' = "io_reap"
           differs == /\ checked
                      /\ last_winsize # <<>>
                      /\ last_winsize[1] # pty_winsize
       IN  /\ CountResize(cast') = CountResize(cast) + (IF differs THEN 1 ELSE 0)
           /\ differs =>
                /\ cast'[Len(cast')].kind = "r"
                /\ cast'[Len(cast')].data
                     = DecimalStr(pty_winsize[1]) \o <<44>> \o DecimalStr(pty_winsize[2])
                /\ pty_winsize = <<40, 120>> =>
                     cast'[Len(cast')].data = <<52, 48, 44, 49, 50, 48>>
           /\ checked => last_winsize' = <<pty_winsize>>]_vars

\* C26 witness: the pty was resized, the check has read the new size and
\* appended the 'r' event for it.
C26_Witness ==
    /\ last_winsize = <<<<40, 120>>>>
    /\ CountResize(cast) = 1
    /\ pc = "io_reap"

\* C27: a cast file that has been opened starts with exactly one header,
\* which has version 2 and integer width, height and timestamp; every later
\* line is an event of a time, a kind and a payload, and the text json.dumps
\* makes of it has no line break in it.
C27_HeaderOnceThenEvents ==
    /\ cast_file = NoneValue => cast = <<>>
    /\ cast_file # NoneValue =>
          /\ Len(cast) >= 1
          /\ DOMAIN cast[1] = {"version", "width", "height", "timestamp"}
          /\ cast[1].version = 2
          /\ cast[1].width \in Nat
          /\ cast[1].height \in Nat
          /\ cast[1].timestamp \in Int
          /\ \A i \in 2..Len(cast) :
                /\ DOMAIN cast[i] = {"t", "kind", "data"}
                /\ cast[i].kind \in EventKinds
                /\ Range(EventText(cast[i])) \cap {10, 13} = {}

\* C27 witness: the recording is over, its cast file holds the header and
\* three events, one of them with a line feed in its payload.
C27_Witness ==
    /\ pc = "exited"
    /\ cast_file = "closed"
    /\ Len(cast) >= 4
    /\ \E i \in 2..Len(cast) : 10 \in Range(cast[i].data)

\* C28: the step in which the handler takes a message of a viewer changes
\* nothing of the hub: the registry, the connections, the replay buffer, the
\* queue and the broadcast under way are as before, so the viewer is still
\* registered and still sent to.
C28_ClientMessagesIgnored ==
    [][handled' # handled =>
         /\ clients' = clients
         /\ conn' = conn
         /\ recent_output' = recent_output
         /\ broadcast_queue' = broadcast_queue
         /\ drain' = drain
         /\ inbox' = inbox]_vars

\* C29: a viewer that has stopped reading never holds up the others: while a
\* broadcast is under way, the event can be sent at once to every viewer of
\* the broadcast that is reading and has not been sent to yet.
C29_SlowViewerDelaysNobody ==
    \A w \in Viewers :
        (/\ drain.pc \in {"sending", "blocked"}
         /\ w \in BroadcastTargets
         /\ conn[w] = "open") => ENABLED DrainSend(w)

-----------------------------------------------------------------------------
(* main of record_session.py: recorder.record_session() stands in no try,  *)
(* and "Recording saved to" is printed after it has returned.              *)

\* an exception left record_session: open raised in write_header,
\* start_server raised, or KeyboardInterrupt before the try; the interpreter
\* prints the traceback to stderr and exits with code 1
RaisedOutOfMain == end_cause \in {"open_failed", "monitor_failed", "sigint"}

\* record_session returned, main printed "Recording saved to: ..."
ReportedSaved == pc = "exited" /\ ~RaisedOutOfMain

\* the exit code of the process once it has exited
ExitCode == IF RaisedOutOfMain THEN 1 ELSE 0

\* a traceback, or "Error during recording: ..." of except Exception
ErrorOnStderr == RaisedOutOfMain \/ end_cause = "spawn_failed"

\* C30: when the recorder has exited after the cast file could not be opened
\* or the shell could not be started, an error is on stderr, the exit code is
\* not zero and the recording was not reported as saved.
C30_StartFailureSurfaced ==
    (pc = "exited" /\ end_cause \in {"open_failed", "spawn_failed"}) =>
        /\ ErrorOnStderr
        /\ ExitCode # 0
        /\ ~ReportedSaved

-----------------------------------------------------------------------------
(* The per-kind arms of play_events.                                       *)

\* the payload "rows,cols" of a resize event, None (<<>>) if it is not two
\* runs of decimal digits around one comma
RowsCols(data) ==
    LET commas == {i \in 1..Len(data) : data[i] = 44}
    IN  IF Cardinality(commas) # 1 THEN <<>>
        ELSE LET c == CHOOSE i \in commas : TRUE
             IN  IF IsDigits(SubSeq(data, 1, c - 1))
                    /\ IsDigits(SubSeq(data, c + 1, Len(data)))
                 THEN <<SubSeq(data, 1, c - 1), SubSeq(data, c + 1, Len(data))>>
                 ELSE <<>>

\* C31: the dispatch of an 'o' event appends its payload to stdout and no
\* payload to stderr; of an 'e' event its payload to stderr and nothing to
\* stdout; of an 'r' event with payload rows,cols exactly ESC [ 8 ; rows ;
\* cols t to stdout; 'i', 'm' and unknown kinds add nothing to stdout, and an
\* unknown kind adds one warning (and no payload) to stderr.
C31_DispatchPerKind ==
    [][emitted' # emitted =>
         LET e == events[event_index]
             rc == RowsCols(e.data)
             errNew == SubSeq(play_err', Len(play_err) + 1, Len(play_err'))
             errOwn == SelectSeq(errNew, LAMBDA c : c.what # "title")
         IN  /\ emitted' = Append(emitted, event_index)
             /\ e.kind = "o" => /\ play_out' = Append(play_out, [what |-> "data", text |-> e.data])
                                /\ errOwn = <<>>
             /\ e.kind = "e" => /\ play_out' = play_out
                                /\ errOwn = <<[what |-> "data", text |-> e.data]>>
             /\ (e.kind = "r" /\ rc # <<>>) =>
                    /\ play_out' = Append(play_out,
                           [what |-> "resize",
                            text |-> <<27, 91, 56, 59>> \o rc[1] \o <<59>>
                                     \o rc[2] \o <<116>>])
                    /\ errOwn = <<>>
             /\ e.kind \in {"i", "m"} => /\ play_out' = play_out
                                         /\ errOwn = <<>>
             /\ e.kind \notin {"o", "e", "r", "i", "m"} =>
                    /\ play_out' = play_out
                    /\ Len(errOwn) = 1
                    /\ errOwn[1].what = "warning"]_vars

\* a cast with every kind was played to its end: stdout got the two outputs
\* and the resize escape for 40 rows and 120 columns, stderr the 'e' payload
\* and the warning for the unknown kind
C31_Witness ==
    /\ outcome = "finished"
    /\ events = CastAllKinds
    /\ EventChunks(play_out) =
           <<[what |-> "data", text |-> <<97>>],
             [what |-> "resize",
              text |-> <<27, 91, 56, 59, 52, 48, 59, 49, 50, 48, 116>>],
             [what |-> "data", text |-> <<98>>]>>
    /\ Len(SelectSeq(play_err, LAMBDA c : c.what = "warning")) = 1
    /\ EventChunks(play_err) = <<[what |-> "data", text |-> <<69>>]>>

-----------------------------------------------------------------------------
(* Skip mode.                                                               *)

\* data.startswith(pat)
BeginsWith(data, pat) ==
    Len(data) >= Len(pat) /\ SubSeq(data, 1, Len(pat)) = pat

\* C32: skip mode stops (the player pauses at the event instead of playing
\* through it) only at an 'i' event or at an 'm' event whose payload begins
\* with activity_resumed_after_.
C32_AnchorsExact ==
    ppc = "pause_anchor" =>
        LET e == events[event_index]
        IN  \/ e.kind = "i"
            \/ /\ e.kind = "m"
               /\ BeginsWith(e.data, ActivityResumedAfter \o <<95>>)

-----------------------------------------------------------------------------
(* What a run of play_in_terminal writes when no key is ever waiting.      *)

RECURSIVE NoKeyStdoutUpTo(_)
\* stdout after the first n events: the banner, the cleared screen, the arms
NoKeyStdoutUpTo(n) ==
    IF n = 0
    THEN <<[what |-> "banner", text |-> BannerText],
           [what |-> "clear", text |-> ClearScreen]>>
    ELSE NoKeyStdoutUpTo(n - 1) \o StdoutOf(events[n])

RECURSIVE NoKeyStderrUpTo(_)
\* stderr after the first n events: the titles of the start, then for each
\* event the skip message of a capped delay and what its arm writes
NoKeyStderrUpTo(n) ==
    IF n = 0
    THEN <<Title("Ready to start"), Title("Playing")>>
    ELSE LET delay == NominalDelay(n, IF n = 1 THEN 0 ELSE events[n - 1].t)
         IN  NoKeyStderrUpTo(n - 1)
             \o (IF delay > max_delay
                 THEN <<Title("Skipping pause"), Title("Playing")>> ELSE <<>>)
             \o StderrOf(events[n])

NoKeyStdout ==
    Append(NoKeyStdoutUpTo(Len(events)), [what |-> "finished", text |-> FinishedText])

NoKeyStderr == Append(NoKeyStderrUpTo(Len(events)), Title("Finished"))

NotTitle(c) == c.what # "title"

\* C36: a playback that ran to its end without Ctrl-C, whatever keys were
\* consumed, has dispatched every event exactly once and in file order, and
\* has written to stdout and to stderr exactly what a run without key presses
\* writes.
C36_ControlsTimingOnly ==
    outcome = "finished" =>
        /\ emitted = [i \in 1..Len(events) |-> i]
        /\ play_out = NoKeyStdout
        /\ play_err = NoKeyStderr

\* C36 as the code has it: every event is dispatched exactly once and in file
\* order, stdout is what a run without key presses writes, and so is stderr
\* apart from the window titles (which the keys and skip mode change); a run
\* in which no key was consumed writes exactly the no-key streams.
C36_EventOutputUnaffected ==
    outcome = "finished" =>
        /\ emitted = [i \in 1..Len(events) |-> i]
        /\ play_out = NoKeyStdout
        /\ SelectSeq(play_err, NotTitle) = SelectSeq(NoKeyStderr, NotTitle)
        /\ ~key_seen => play_err = NoKeyStderr

\* a cast with an 'e' event and an unknown kind was played to its end: Tab
\* started skip mode, the player paused at the 'i' event, Space resumed it,
\* and playback ended unpaused with titles on stderr that a run without keys
\* does not write
C36_Witness ==
    /\ outcome = "finished"
    /\ events = CastAllKinds
    /\ keys_left = 0
    /\ ~paused
    /\ skip_anchor > 0
    /\ space_since_tab
    /\ \E i \in 1..Len(play_err) : play_err[i] = Title("PAUSED at anchor")
    /\ play_err # NoKeyStderr

\* a key was consumed in this step, and it was this one
Consumed(key) == keys_left' < keys_left /\ last_key' = key

\* C37: a Tab consumed while paused leaves paused set, sets skip_to_next and
\* emits nothing; while paused with skip_to_next set nothing is emitted and
\* only a consumed Space clears paused; that Space leaves skip_to_next set
\* and the player goes on to the skip test or to the dispatch, not back to
\* the sleep loop; and while skip_to_next is set and the player is not paused
\* it is never in the sleep loop and does not sleep.
C37_TabWhilePaused ==
    /\ [][(paused /\ Consumed("tab")) =>
             /\ paused' /\ skip_to_next'
             /\ emitted' = emitted /\ event_index' = event_index
             /\ ppc' = ppc]_vars
    /\ [][(paused /\ skip_to_next) =>
             /\ emitted' = emitted
             /\ paused' \/ Consumed("space")]_vars
    /\ [][(paused /\ skip_to_next /\ ~paused') =>
             /\ skip_to_next'
             /\ ppc' \in {"skip_check", "dispatch"}]_vars
    /\ [](skip_to_next /\ ~paused => ppc # "sleeping")
    /\ [][(skip_to_next /\ ~paused) => waited' \in {waited, 0}]_vars

\* Space paused the capped delay before the marker, Tab was consumed while
\* paused (it wrote no title), Space resumed: the marker is about to be
\* dispatched with part of its delay left unslept
C37_Witness ==
    /\ events = CastWithMarker
    /\ event_index = 3
    /\ ppc = "dispatch"
    /\ remaining_delay > 0
    /\ skip_to_next /\ ~paused
    /\ last_key = "space"
    /\ keys_left = MaxKeys - 3
    /\ \A i \in 1..Len(play_err) : play_err[i] # Title("Skipping to next")

-----------------------------------------------------------------------------
(* SpecPipe: a monitored recording in which the child writes to both of    *)
(* its streams, SIGINT may arrive between the echo of a chunk and its       *)
(* write_event, and the hub delivers to viewers.                            *)

NextPipe ==
    \/ WriteHeaderOk
    \/ SetupTerminal
    \/ StartMonitorOk
    \/ SpawnOk
    \/ HubThreadInit
    \/ \E v \in Viewers : Connect(v)
    \/ \E v \in Viewers : SyncDone(v)
    \/ ChildWrite
    \/ ChildWriteErr
    \/ ChildExit
    \/ Select
    \/ CheckTerminalState
    \/ Reap
    \/ DispatchMaster
    \/ DispatchStderr
    \/ \E fd \in {"master", "stderr"} : SigIntAfterRead(fd, "written")
    \/ DrainGet
    \/ \E v \in Viewers : DrainSend(v)
    \/ DrainFinish
    \/ CloseAndWait
    \/ RestoreAndClose

SpecPipe == InitSession /\ [][NextPipe]_vars

RECURSIVE IsSubsequence(_, _)
\* s can be obtained from t by leaving items out
IsSubsequence(s, t) ==
    IF s = <<>> THEN TRUE
    ELSE IF t = <<>> THEN FALSE
    ELSE IF Head(s) = Head(t) THEN IsSubsequence(Tail(s), Tail(t))
    ELSE IsSubsequence(s, Tail(t))

\* the 'o' and 'e' events of the cast file as (event_type, data), in order
CastOutputs ==
    LET idx == {i \in 2..Len(cast) : cast[i].kind \in {"o", "e"}}
        lines == SelectSeqOf(cast, idx)
    IN  [i \in 1..Len(lines) |-> [event_type |-> lines[i].kind, data |-> lines[i].data]]

\* the terminal_data messages of viewer v as (event_type, data), in order
TerminalDataOf(v) ==
    LET idx == {i \in 1..Len(inbox[v]) : inbox[v][i].type = "terminal_data"}
        msgs == SelectSeqOf(inbox[v], idx)
    IN  [i \in 1..Len(msgs) |-> [event_type |-> msgs[i].event_type, data |-> msgs[i].data]]

\* C33: an event is appended to the cast file only in a step that has written
\* its bytes to the terminal; an event is put on the hub's queue only in the
\* step that appended it, as its last line, to the cast file; hence what is
\* on the queue and the terminal_data messages of every viewer are, in order,
\* among the 'o'/'e' events already in the cast file.
C33_WriteAppendPublish ==
    /\ [][Len(cast') > Len(cast) /\ Len(cast) >= 1 =>
             LET line == cast'[Len(cast')]
             IN  /\ Len(cast') = Len(cast) + 1
                 /\ line.kind = "o" => Len(term_out') > Len(term_out)
                 /\ line.kind = "e" => Len(term_err') > Len(term_err)
                 /\ line.kind = "i" => Len(child_in') > Len(child_in)]_vars
    /\ [][Len(broadcast_queue') > Len(broadcast_queue) =>
             LET item == broadcast_queue'[Len(broadcast_queue')]
                 line == cast'[Len(cast')]
             IN  /\ Len(cast') = Len(cast) + 1
                 /\ line.kind = item.event_type
                 /\ line.data = item.data]_vars
    /\ [](/\ IsSubsequence(broadcast_queue, CastOutputs)
          /\ \A v \in Viewers : IsSubsequence(TerminalDataOf(v), CastOutputs))

\* a viewer has received the terminal_data of an 'o' and of an 'e' event, both
\* in the cast file, while the terminal shows bytes of a chunk that SIGINT
\* kept out of the cast file
C33_Witness ==
    /\ \E v \in Viewers :
          /\ Len(TerminalDataOf(v)) >= 2
          /\ \E i, j \in 1..Len(TerminalDataOf(v)) :
                /\ TerminalDataOf(v)[i].event_type = "o"
                /\ TerminalDataOf(v)[j].event_type = "e"
    /\ Len(term_out) > Len(CastPayload("o"))
    /\ child_sigint

-----------------------------------------------------------------------------
(* SpecReap: the recording of SpecEof with the recorder's own steps taken  *)
(* sooner or later: select returns after 0.1 s at the latest, the reads    *)
(* are made on fds select reported, waitpid(pid, 0) returns once the child *)
(* has exited.  Nothing is assumed of the child or of the user.            *)

RecorderFairness ==
    /\ WF_vars(Select)
    /\ WF_vars(CheckTerminalState)
    /\ WF_vars(Reap)
    /\ WF_vars(DispatchStdin)
    /\ WF_vars(DispatchMaster)
    /\ WF_vars(DispatchStderr)
    /\ WF_vars(CloseAndWait)
    /\ WF_vars(RestoreAndClose)

SpecReap == InitEof /\ [][NextEof]_vars /\ RecorderFairness

\* C34: once the child has exited while the loop runs, record_session comes
\* to its end with the cast file closed; the waitpid of the iteration that
\* finds the child exited leaves the loop; and after a select has returned
\* with the child exited the loop never selects again, readable fds or not.
C34_ReapEndsRecording ==
    /\ (child = "zombie" /\ InLoop) ~> (pc = "exited" /\ cast_file = "closed")
    /\ [][(pc = "io_reap" /\ child = "zombie" /\ pc' # pc) => pc' = "io_closing"]_vars
    /\ []((child = "zombie" /\ pc = "io_check") => [](pc # "io_select"))

\* the child exited after a select that had found nothing readable; the
\* waitpid of that iteration ended the loop, the descriptors and the cast
\* file were closed and record_session returned
C34_Witness ==
    /\ pc = "exited"
    /\ end_cause = "child_exit"
    /\ ready_fds = <<>>
    /\ child = "reaped"
    /\ cast_file = "closed"

-----------------------------------------------------------------------------
(* The hub's queue is made by the hub thread, not by start_server.          *)

\* C35: every 'o'/'e' event in the cast file of a monitored recording has
\* been handed to the drain task or waits on the hub's queue for it: none was
\* dropped by schedule_broadcast.
C35_NoneLostBeforeQueue ==
    (monitor_enabled /\ event_loop /\ running) =>
        Len(CastOutputs) = Len(taken) + Len(broadcast_queue)

-----------------------------------------------------------------------------
(* SpecSync: viewers attach to a hub whose TerminalState was made with     *)
(* buffer_size = MaxBuffered, more than the 100 entries a snapshot shows.  *)
(* The recording is under way: a first viewer attached before any output   *)
(* and has been sent each of the p events written so far, which the        *)
(* Replay Buffer holds up to its size.                                     *)

MaxBuffered == 102      \* buffer_size of the TerminalState of SpecSync
MaxPublished == 103     \* events written before the later viewers attach

\* the i-th event written: 'o' and 'e' in turn, the payload tells them apart
PublishedItem(i) ==
    [event_type |-> IF i % 2 = 0 THEN "e" ELSE "o", data |-> <<i>>]

\* the entry process_output stores for it
BufferEntry(i) ==
    [timestamp |-> 0, event_type |-> PublishedItem(i).event_type,
     data |-> PublishedItem(i).data]

\* the terminal_data message broadcast_event sends for it
DataMessage(i) ==
    [type |-> "terminal_data", timestamp |-> 0,
     event_type |-> PublishedItem(i).event_type, data |-> PublishedItem(i).data]

InitSync ==
    /\ wall = 0
    /\ monitor_enabled = TRUE
    /\ stdin_isatty = TRUE
    /\ PlayerAbsent
    /\ LoaderIdle
    \* the recorder is in its loop, the child has been spawned
    /\ pc = "io_select"
    /\ tty_attrs = "raw"
    /\ original_tty_settings = "cooked"
    /\ raw_was_set = TRUE
    /\ end_cause = NoneValue
    /\ cast_file = "open"
    /\ start_time = 0
    /\ child = "alive"
    /\ child_wrote = 0 /\ child_wrote_err = 0 /\ user_typed = 0
    /\ child_sigint = FALSE
    /\ tty_winsize = <<24, 80>>
    /\ stdin_eof = FALSE
    /\ stderr_eof = FALSE
    /\ polls_since_resize = 2
    /\ eof_reads = {}
    /\ master_buf = <<>> /\ stderr_buf = <<>> /\ stdin_buf = <<>>
    /\ child_in = <<>> /\ term_out = <<>> /\ term_err = <<>>
    /\ ready_fds = <<>>
    /\ pty_attrs = "cooked"
    /\ pty_winsize = <<24, 80>>
    /\ last_terminal_attrs = NoneValue
    /\ last_winsize = <<>>
    \* the hub runs, its queue is empty, the drain task is idle
    /\ event_loop = TRUE
    /\ running = TRUE
    /\ queue_ready = TRUE
    /\ broadcast_queue = <<>>
    /\ drain = IdleDrain
    /\ send_failed = {}
    /\ handled = [v \in Viewers |-> 0]
    /\ attached_at = [v \in Viewers |-> 0]
    /\ published_at = [v \in Viewers |-> 0]
    /\ clients = {1}
    /\ conn = [v \in Viewers |-> IF v = 1 THEN "open" ELSE "none"]
    \* p events were written, handled by the drain task and sent to viewer 1
    /\ \E p \in 0..MaxPublished :
          /\ cast = <<HeaderLine(0)>>
                    \o [i \in 1..p |-> CastLine(PublishedItem(i).event_type,
                                                PublishedItem(i).data, 0)]
          /\ taken = [i \in 1..p |-> PublishedItem(i)]
          /\ stored = [i \in 1..p |-> BufferEntry(i)]
          /\ recent_output = LastN([i \in 1..p |-> BufferEntry(i)],
                                   Min(p, MaxBuffered))
          /\ inbox = [v \in Viewers |->
                        IF v = 1
                        THEN <<GetSyncData(<<>>, 0)>> \o [i \in 1..p |-> DataMessage(i)]
                        ELSE <<>>]

NextSync ==
    \/ \E v \in Viewers : Connect(v)
    \/ \E v \in Viewers : SyncDone(v)
    \/ \E v \in Viewers : PeerClose(v)
    \/ \E v \in Viewers : HandlerExit(v)

SpecSync == InitSync /\ [][NextSync]_vars

\* C38: the terminal_sync a connecting viewer is sent holds in recent_output
\* the last min(100, n) entries of the Replay Buffer of n entries, in order;
\* showing_recent is the length of recent_output; total_events is n, at most
\* the buffer's size however many events were published; and taking the
\* snapshot leaves the buffer as it was.
C38_SyncContents ==
    [][\A v \in Viewers :
          (/\ Len(inbox'[v]) > Len(inbox[v])
           /\ inbox'[v][Len(inbox'[v])].type = "terminal_sync") =>
              LET sync == inbox'[v][Len(inbox'[v])]
                  n == Len(recent_output)
                  k == IF n < 100 THEN n ELSE 100
              IN  /\ sync.recent_output = SubSeq(recent_output, n - k + 1, n)
                  /\ sync.buffer_info.showing_recent = Len(sync.recent_output)
                  /\ sync.buffer_info.total_events = n
                  /\ sync.buffer_info.total_events <= MaxBuffered
                  /\ recent_output' = recent_output]_vars

\* more events were published than the buffer holds, the buffer is full and
\* longer than the window: the viewer's snapshot shows 100 of its entries
C38_Witness ==
    /\ Len(stored) > Len(recent_output)
    /\ Len(recent_output) > 100
    /\ \E v \in Viewers :
          /\ v # 1
          /\ SyncsOf(v) # <<>>
          /\ SyncsOf(v)[1].buffer_info.total_events = Len(recent_output)
          /\ SyncsOf(v)[1].buffer_info.showing_recent = 100
          /\ Len(SyncsOf(v)[1].recent_output) = 100
          /\ SyncsOf(v)[1].recent_output[100] = recent_output[Len(recent_output)]

====
